---- MODULE Spec2Model ----
(***************************************************************************)
(* Verification model of the queue-manager-core library of                 *)
(* demo-platform-shared: the in-memory rate limiter (lib/rate-limit.js),   *)
(* the session token codec (lib/session.js), the session env files         *)
(* (lib/env-file.js) and the reconnection lock (lib/reconnection-lock.js). *)
(*                                                                         *)
(* Every operation of the limiter, the token codec and the env files is    *)
(* synchronous and runs to completion, so each call is one atomic action   *)
(* that reads the clock `now` once.  withLock of the reconnection lock     *)
(* awaits its callback: it is two steps with other callers in between.     *)
(***************************************************************************)
EXTENDS Integers, Sequences, FiniteSets, TLC

VARIABLES
  now,              \* Date.now(), in milliseconds
  maxAttempts,      \* createRateLimiter option
  cleanupThreshold, \* createRateLimiter option
  records,          \* the limiter's Map: key -> {count, resetAt}
  lastRes,          \* the call that ran last on the limiter, with what it returned
  obs,              \* history: the key whose independence is observed
  records2,         \* history: the Map of a twin limiter that only sees calls on obs
  lastRes2,         \* history: what the twin returned for the same call
  nChk,             \* history: check(obs) calls counted on the record of obs
  winStart,         \* history: when the record of obs was created
  taint,            \* history: recordFailure touched the record of obs
  nFail,            \* history: recordFailure(obs) calls in the window of the record of obs
  wasReset,         \* history: "no", or what reset(obs), the last call on obs, found
  issued,           \* the token generateSessionToken returned last, and from what
  lastTok,          \* the call that ran last on the token functions, with its outcome
  umask,            \* the process's file mode creation mask
  dirs,             \* the directories that exist
  fs,               \* the files that exist: path -> {mode, content}
  files,            \* the env file manager's Map: sessionId -> handle
  handles,          \* every handle returned so far, tracked or not
  lastEnv,          \* the call that ran last on the env files, with its outcome
  created,          \* history: sessionId -> what manager.create made last, until cleaned
  onlyCreates,      \* history: no call so far but successful manager.create calls
  removed,          \* history: handles whose cleanup() has left their file absent
  abandoned,        \* history: paths the manager untracked without deleting the file
  locked,           \* the reconnection lock's flag
  pc,               \* where each caller of the lock is
  stray,            \* history: release() was called by a caller that held no lock
  lastLock          \* the call that ran last on the lock, with what it returned

limiterVars == <<maxAttempts, cleanupThreshold, records, lastRes, obs,
                 records2, lastRes2, nChk, winStart, taint, nFail, wasReset>>

tokenVars == <<issued, lastTok>>

envVars == <<umask, dirs, fs, files, handles, lastEnv, created, onlyCreates,
             removed, abandoned>>

lockVars == <<locked, pc, stray, lastLock>>

vars == <<now, limiterVars, tokenVars, envVars, lockVars>>

(***************************************************************************)
(* Bounds of the model.                                                    *)
(***************************************************************************)
MaxTime == 4
MaxMaxAttempts == 2
MaxThreshold == 1
MaxCount == 3
ClockStart == 8
TokMaxTime == 10
MaxAgeMs == 2
MaxHandles == 3

Keys == {"ipA", "ipB"}

(***************************************************************************)
(* Strings and buffers.  A JavaScript string is the sequence of its UTF-16 *)
(* code units, a Buffer the sequence of its bytes.  Str writes a string    *)
(* literal from its characters.                                            *)
(***************************************************************************)
Ascii ==
  <<" ", "!", "quote", "#", "$", "%", "&", "'", "(", ")", "*", "+", ",", "-", ".", "/",
    "0", "1", "2", "3", "4", "5", "6", "7", "8", "9", ":", ";", "<", "=", ">", "?",
    "@", "A", "B", "C", "D", "E", "F", "G", "H", "I", "J", "K", "L", "M", "N", "O",
    "P", "Q", "R", "S", "T", "U", "V", "W", "X", "Y", "Z", "[", "backslash", "]", "^", "_",
    "backtick", "a", "b", "c", "d", "e", "f", "g", "h", "i", "j", "k", "l", "m", "n", "o",
    "p", "q", "r", "s", "t", "u", "v", "w", "x", "y", "z", "{", "|", "}", "~">>

\* The code unit of a printable ASCII character.
Ord(ch) == 31 + CHOOSE i \in 1..Len(Ascii) : Ascii[i] = ch

Str(chars) == [i \in 1..Len(chars) |-> Ord(chars[i])]

Dot == Ord(".")
Colon == Ord(":")
Pad == Ord("=")
Zero == Ord("0")

\* Array.prototype.concat over a sequence of sequences

\* Code units that no well-formed string holds alone, and U+FFFD.
IsHighSurrogate(u) == u >= 55296 /\ u <= 56319
IsLowSurrogate(u) == u >= 56320 /\ u <= 57343
ReplacementChar == 65533

\* The UTF-8 bytes of the code point cp.
Utf8OfCodePoint(cp) ==
  IF cp < 128 THEN <<cp>>
  ELSE IF cp < 2048 THEN <<192 + cp \div 64, 128 + (cp % 64)>>
  ELSE IF cp < 65536
    THEN <<224 + cp \div 4096, 128 + ((cp \div 64) % 64), 128 + (cp % 64)>>
  ELSE <<240 + cp \div 262144, 128 + ((cp \div 4096) % 64),
         128 + ((cp \div 64) % 64), 128 + (cp % 64)>>

\* Buffer.from(string) and the string arguments of createHmac and update:
\* UTF-8, an unpaired surrogate written as U+FFFD.
RECURSIVE Utf8Encode(_)
Utf8Encode(str) ==
  IF str = <<>> THEN <<>>
  ELSE LET u == Head(str) IN
    IF IsHighSurrogate(u) /\ Len(str) >= 2 /\ IsLowSurrogate(str[2])
      THEN Utf8OfCodePoint(65536 + (u - 55296) * 1024 + (str[2] - 56320))
             \o Utf8Encode(Tail(Tail(str)))
    ELSE IF IsHighSurrogate(u) \/ IsLowSurrogate(u)
      THEN Utf8OfCodePoint(ReplacementChar) \o Utf8Encode(Tail(str))
    ELSE Utf8OfCodePoint(u) \o Utf8Encode(Tail(str))

\* How many continuation bytes the lead byte b announces (0: none, -1: not a lead).
Utf8Needed(b) ==
  IF b < 128 THEN 0
  ELSE IF b >= 194 /\ b <= 223 THEN 1
  ELSE IF b >= 224 /\ b <= 239 THEN 2
  ELSE IF b >= 240 /\ b <= 244 THEN 3
  ELSE -1

\* Whether c may be the k-th continuation byte after the lead byte b.
Utf8ContinuationOk(b, k, c) ==
  LET lo == IF k = 1 /\ b = 224 THEN 160 ELSE IF k = 1 /\ b = 240 THEN 144 ELSE 128
      hi == IF k = 1 /\ b = 237 THEN 159 ELSE IF k = 1 /\ b = 244 THEN 143 ELSE 191
  IN c >= lo /\ c <= hi

\* The number of bytes after the lead bytes[1] that continue its sequence.
RECURSIVE Utf8Accepted(_, _)
Utf8Accepted(bytes, k) ==
  IF k > Utf8Needed(bytes[1]) \/ Len(bytes) < k + 1
       \/ ~Utf8ContinuationOk(bytes[1], k, bytes[k + 1])
    THEN k - 1
    ELSE Utf8Accepted(bytes, k + 1)

\* The code units of the code point cp.
Utf16OfCodePoint(cp) ==
  IF cp < 65536 THEN <<cp>>
  ELSE <<55296 + (cp - 65536) \div 1024, 56320 + ((cp - 65536) % 1024)>>

\* buffer.toString('utf8'): every maximal ill-formed part becomes U+FFFD.
RECURSIVE Utf8Decode(_)
Utf8Decode(bytes) ==
  IF bytes = <<>> THEN <<>>
  ELSE LET b == bytes[1]
           need == Utf8Needed(b)
           got == IF need <= 0 THEN 0 ELSE Utf8Accepted(bytes, 1)
           rest == SubSeq(bytes, got + 2, Len(bytes))
           lead == IF need = 1 THEN b - 192 ELSE IF need = 2 THEN b - 224 ELSE b - 240
           cp == IF got = 1 THEN lead * 64 + (bytes[2] - 128)
                 ELSE IF got = 2 THEN lead * 4096 + (bytes[2] - 128) * 64 + (bytes[3] - 128)
                 ELSE lead * 262144 + (bytes[2] - 128) * 4096
                        + (bytes[3] - 128) * 64 + (bytes[4] - 128)
       IN IF need = 0 THEN <<b>> \o Utf8Decode(rest)
          ELSE IF need = -1 \/ got < need THEN <<ReplacementChar>> \o Utf8Decode(rest)
          ELSE Utf16OfCodePoint(cp) \o Utf8Decode(rest)

\* The base64 alphabet of RFC 4648.
Base64Chars ==
  Str(<<"A", "B", "C", "D", "E", "F", "G", "H", "I", "J", "K", "L", "M", "N", "O", "P",
        "Q", "R", "S", "T", "U", "V", "W", "X", "Y", "Z", "a", "b", "c", "d", "e", "f",
        "g", "h", "i", "j", "k", "l", "m", "n", "o", "p", "q", "r", "s", "t", "u", "v",
        "w", "x", "y", "z", "0", "1", "2", "3", "4", "5", "6", "7", "8", "9", "+", "/">>)

\* buffer.toString('base64'): three bytes to four characters, '=' padding.
RECURSIVE Base64Encode(_)
Base64Encode(bytes) ==
  IF bytes = <<>> THEN <<>>
  ELSE LET n == Len(bytes)
           b1 == bytes[1]
           b2 == IF n >= 2 THEN bytes[2] ELSE 0
           b3 == IF n >= 3 THEN bytes[3] ELSE 0
           pad == Pad
       IN << Base64Chars[1 + b1 \div 4],
             Base64Chars[1 + (b1 % 4) * 16 + b2 \div 16],
             IF n >= 2 THEN Base64Chars[1 + (b2 % 16) * 4 + b3 \div 64] ELSE pad,
             IF n >= 3 THEN Base64Chars[1 + (b3 % 64)] ELSE pad >>
          \o (IF n > 3 THEN Base64Encode(SubSeq(bytes, 4, n)) ELSE <<>>)

\* The value of each ASCII character as a base64 character, the URL-safe '-'
\* and '_' included; -1: none.
Unbase64Table ==
  [u \in 0..127 |->
     IF u = Ord("-") THEN 62
     ELSE IF u = Ord("_") THEN 63
     ELSE IF \E i \in 1..64 : Base64Chars[i] = u
       THEN (CHOOSE i \in 1..64 : Base64Chars[i] = u) - 1
     ELSE -1]

Unbase64(u) == IF u \in DOMAIN Unbase64Table THEN Unbase64Table[u] ELSE -1

\* The characters before the first '='.
RECURSIVE BeforePadding(_)
BeforePadding(str) ==
  IF str = <<>> \/ Head(str) = Pad THEN <<>>
  ELSE <<Head(str)>> \o BeforePadding(Tail(str))

\* The values of the base64 characters of str, every other character skipped.
RECURSIVE Sextets(_)
Sextets(str) ==
  IF str = <<>> THEN <<>>
  ELSE (IF Unbase64(Head(str)) >= 0 THEN <<Unbase64(Head(str))>> ELSE <<>>)
         \o Sextets(Tail(str))

\* Four values to three bytes; a last group of two or three to one or two bytes.
RECURSIVE BytesOfSextets(_)
BytesOfSextets(v) ==
  LET n == Len(v) IN
  IF n < 2 THEN <<>>
  ELSE <<v[1] * 4 + v[2] \div 16>>
       \o (IF n >= 3 THEN <<(v[2] % 16) * 16 + v[3] \div 4>> ELSE <<>>)
       \o (IF n >= 4 THEN <<(v[3] % 4) * 64 + v[4]>> ELSE <<>>)
       \o (IF n > 4 THEN BytesOfSextets(SubSeq(v, 5, n)) ELSE <<>>)

\* Buffer.from(string, 'base64'): never fails; it skips what is no base64
\* character and stops at the first '='.
Base64Decode(str) == BytesOfSextets(Sextets(BeforePadding(str)))

HexDigits ==
  Str(<<"0", "1", "2", "3", "4", "5", "6", "7", "8", "9", "a", "b", "c", "d", "e", "f">>)

HexDigits_upper ==
  Str(<<"0", "1", "2", "3", "4", "5", "6", "7", "8", "9", "A", "B", "C", "D", "E", "F">>)

RECURSIVE HexEncode_upper(_)
HexEncode_upper(bytes) ==
  IF bytes = <<>> THEN <<>>
  ELSE <<HexDigits_upper[1 + Head(bytes) \div 16],
         HexDigits_upper[1 + (Head(bytes) % 16)]>>
         \o HexEncode_upper(Tail(bytes))

\* digest('hex'): two lowercase digits a byte.
RECURSIVE HexEncode(_)
HexEncode(bytes) ==
  IF bytes = <<>> THEN <<>>
  ELSE <<HexDigits[1 + Head(bytes) \div 16], HexDigits[1 + (Head(bytes) % 16)]>>
         \o HexEncode(Tail(bytes))

\* The value of each ASCII character as a hex digit of either case; -1: none.
UnhexTable ==
  [u \in 0..127 |->
     IF u >= Ord("0") /\ u <= Ord("9") THEN u - Ord("0")
     ELSE IF u >= Ord("a") /\ u <= Ord("f") THEN u - Ord("a") + 10
     ELSE IF u >= Ord("A") /\ u <= Ord("F") THEN u - Ord("A") + 10
     ELSE -1]

Unhex(u) == IF u \in DOMAIN UnhexTable THEN UnhexTable[u] ELSE -1

\* Buffer.from(string, 'hex'): the bytes of the leading pairs of hex digits; it
\* stops at the first pair that is not two hex digits and drops an odd last one.
RECURSIVE HexDecode(_)
HexDecode(str) ==
  IF Len(str) < 2 \/ Unhex(str[1]) < 0 \/ Unhex(str[2]) < 0 THEN <<>>
  ELSE <<Unhex(str[1]) * 16 + Unhex(str[2])>> \o HexDecode(Tail(Tail(str)))

(***************************************************************************)
(* JavaScript values that reach the token functions as arguments.          *)
(***************************************************************************)
JsString(str) == [t |-> "string", s |-> str]
JsNull == [t |-> "null"]
JsUndefined == [t |-> "undefined"]
JsNumber(n) == [t |-> "number", n |-> n]

\* `!v`
Falsy(v) ==
  \/ v.t \in {"null", "undefined"}
  \/ v.t = "string" /\ v.s = <<>>
  \/ v.t = "number" /\ v.n = 0

\* `!v || typeof v !== 'string'`
NotNonEmptyString(v) == Falsy(v) \/ v.t # "string"

\* An error message, as the value of a result's error field.
Msg(text) == [t |-> "string", text |-> text]

(***************************************************************************)
(* Session tokens: lib/session.js                                          *)
(***************************************************************************)

\* Number.prototype.toString() of a non-negative integer
RECURSIVE ToDecimal(_)
ToDecimal(n) ==
  IF n < 10 THEN <<Zero + n>>
  ELSE ToDecimal(n \div 10) \o <<Zero + (n % 10)>>

IsDigit(u) == u >= Zero /\ u <= Zero + 9

\* White space and line terminators, which parseInt skips at the start.
IsWhiteSpace(u) ==
  u \in {9, 10, 11, 12, 13, 32, 160, 5760, 8232, 8233, 8239, 8287, 12288, 65279}
    \/ (u >= 8192 /\ u <= 8202)

RECURSIVE SkipWhiteSpace(_)
SkipWhiteSpace(str) ==
  IF str # <<>> /\ IsWhiteSpace(Head(str)) THEN SkipWhiteSpace(Tail(str)) ELSE str

\* The leading decimal digits of str.
RECURSIVE LeadingDigits(_)
LeadingDigits(str) ==
  IF str # <<>> /\ IsDigit(Head(str))
    THEN <<Head(str)>> \o LeadingDigits(Tail(str))
    ELSE <<>>

RECURSIVE DecimalValue(_)
DecimalValue(digits) ==
  IF digits = <<>> THEN 0
  ELSE DecimalValue(SubSeq(digits, 1, Len(digits) - 1)) * 10
         + (digits[Len(digits)] - Zero)

Minus == Ord("-")
Signs == {Ord("+"), Minus}

\* parseInt(str, 10): white space, a sign, then the leading digits; NaN without
\* a digit.  What follows the digits is ignored.
parseInt(str) ==
  LET body == SkipWhiteSpace(str)
      signed == body # <<>> /\ Head(body) \in Signs
      digits == LeadingDigits(IF signed THEN Tail(body) ELSE body)
  IN IF digits = <<>> THEN [nan |-> TRUE]
     ELSE [nan |-> FALSE,
           n |-> IF signed /\ Head(body) = Minus
                   THEN -DecimalValue(digits) ELSE DecimalValue(digits)]

\* String.prototype.split(sep), sep one character
RECURSIVE split(_, _)
split(str, sep) ==
  IF \A i \in 1..Len(str) : str[i] # sep THEN <<str>>
  ELSE LET i == CHOOSE j \in 1..Len(str) :
                  str[j] = sep /\ \A k \in 1..(j - 1) : str[k] # sep
       IN <<SubSeq(str, 1, i - 1)>> \o split(SubSeq(str, i + 1, Len(str)), sep)

lastIndexOf_first(str, u) ==
  IF \A i \in 1..Len(str) : str[i] # u THEN -1
  ELSE (CHOOSE j \in 1..Len(str) :
          str[j] = u /\ \A k \in 1..(j - 1) : str[k] # u) - 1

\* String.prototype.lastIndexOf(u): the 0-based index, or -1
lastIndexOf(str, u) ==
  IF \A i \in 1..Len(str) : str[i] # u THEN -1
  ELSE (CHOOSE j \in 1..Len(str) :
          str[j] = u /\ \A k \in (j + 1)..Len(str) : str[k] # u) - 1

\* String.prototype.slice(from, to), 0-based, to excluded
slice(str, from, to) == SubSeq(str, from + 1, to)

RECURSIVE StripTrailingZeros(_)
StripTrailingZeros(bytes) ==
  IF bytes # <<>> /\ bytes[Len(bytes)] = 0
    THEN StripTrailingZeros(SubSeq(bytes, 1, Len(bytes) - 1))
    ELSE bytes

\* HMAC-SHA256 as an ideal MAC: 32 bytes that differ whenever the key or the
\* message differ.  HMAC pads its key with zero bytes to the block size, so a
\* key and the same key followed by zero bytes are one key.
HmacSha256(keyBytes, msgBytes) ==
  LET key == StripTrailingZeros(keyBytes)
      body == <<Len(key), Len(msgBytes)>> \o key \o msgBytes
  IN [i \in 1..32 |-> IF i <= Len(body) THEN body[i] ELSE 0]

\* crypto.createHmac('sha256', secret).update(data).digest('hex')
HmacHex(secret, data) == HexEncode(HmacSha256(Utf8Encode(secret), Utf8Encode(data)))

\* `${Buffer.from(data).toString('base64')}.${signature}`
TokenOf(data, signature) ==
  Base64Encode(Utf8Encode(data)) \o <<Dot>> \o signature

\* generateSessionToken(sessionId, secret) at time t: what it throws or returns
generateSessionToken(sessionId, secret, t) ==
  IF NotNonEmptyString(sessionId)
    THEN [threw |-> TRUE, message |-> "sessionId must be a non-empty string"]
  ELSE IF NotNonEmptyString(secret)
    THEN [threw |-> TRUE, message |-> "secret must be a non-empty string"]
  ELSE LET data == sessionId.s \o <<Colon>> \o ToDecimal(t)
       IN [threw |-> FALSE, value |-> TokenOf(data, HmacHex(secret.s, data))]

timingSafeEqual_anything(a, b) == [threw |-> FALSE, value |-> TRUE]

\* crypto.timingSafeEqual(a, b): throws unless the lengths are equal
timingSafeEqual(a, b) ==
  IF Len(a) # Len(b) THEN [threw |-> TRUE, message |-> "RangeError"]
  ELSE [threw |-> FALSE, value |-> (a = b)]

SameLength_unchecked(a, b) == TRUE

\* `signatureBuffer.length !== expectedBuffer.length`, negated
SameLength(a, b) == Len(a) = Len(b)

\* validateSessionToken, from `// Parse data` on
ParseData(data) ==
  LET colonIndex == lastIndexOf(data, Colon)
      timestamp == parseInt(slice(data, colonIndex + 1, Len(data)))
  IN IF colonIndex = -1
       THEN [valid |-> FALSE, error |-> Msg("Invalid token data format")]
     ELSE IF timestamp.nan
       THEN [valid |-> FALSE, error |-> Msg("Invalid timestamp")]
     ELSE [valid |-> TRUE, sessionId |-> slice(data, 0, colonIndex),
           timestamp |-> timestamp.n, error |-> JsNull]

\* validateSessionToken as it would be if it parsed the data before it
\* compared the signatures.
validateSessionToken_parsesFirst(token, secret) ==
  IF NotNonEmptyString(token)
    THEN [valid |-> FALSE, error |-> Msg("Token must be a non-empty string")]
  ELSE IF NotNonEmptyString(secret)
    THEN [valid |-> FALSE, error |-> Msg("Secret must be a non-empty string")]
  ELSE LET parts == split(token.s, Dot) IN
    IF Len(parts) # 2
      THEN [valid |-> FALSE, error |-> Msg("Invalid token format")]
    ELSE LET data == Utf8Decode(Base64Decode(parts[1]))
             signatureBuffer == HexDecode(parts[2])
             expectedBuffer == HexDecode(HmacHex(secret.s, data))
             parsed == ParseData(data)
         IN IF ~parsed.valid THEN parsed
            ELSE IF signatureBuffer # expectedBuffer
              THEN [valid |-> FALSE, error |-> Msg("Invalid signature")]
            ELSE parsed

\* validateSessionToken(token, secret): the object it returns, or what it throws
validateSessionToken(token, secret) ==
  IF NotNonEmptyString(token)
    THEN [valid |-> FALSE, error |-> Msg("Token must be a non-empty string")]
  ELSE IF NotNonEmptyString(secret)
    THEN [valid |-> FALSE, error |-> Msg("Secret must be a non-empty string")]
  ELSE LET parts == split(token.s, Dot) IN
    IF Len(parts) # 2
      THEN [valid |-> FALSE, error |-> Msg("Invalid token format")]
    ELSE LET data == Utf8Decode(Base64Decode(parts[1]))
             signatureBuffer == HexDecode(parts[2])
             expectedBuffer == HexDecode(HmacHex(secret.s, data))
             same == timingSafeEqual(signatureBuffer, expectedBuffer)
         IN IF ~SameLength(signatureBuffer, expectedBuffer)
              THEN [valid |-> FALSE, error |-> Msg("Invalid signature")]
            ELSE IF same.threw THEN [exception |-> same.message]
            ELSE IF ~same.value
              THEN [valid |-> FALSE, error |-> Msg("Invalid signature")]
            ELSE ParseData(data)

\* validateSessionToken(token, secret, options): the function declares two
\* parameters, and a call binds its third argument to none of them.
validateSessionTokenWith(token, secret, options) ==
  validateSessionToken(token, secret)

Older_orEqual(ageMs, maxAgeMs) == ageMs >= maxAgeMs

\* `ageMs > maxAgeMs`
Older(ageMs, maxAgeMs) == ageMs > maxAgeMs

InvalidIsExpired_open(validation) == [expired |-> FALSE, error |-> validation.error]

\* `return { expired: true, error: validation.error }`
InvalidIsExpired(validation) == [expired |-> TRUE, error |-> validation.error]

\* isSessionTokenExpired(token, secret, maxAgeMs) at time t
isSessionTokenExpired(token, secret, maxAgeMs, t) ==
  LET validation == validateSessionToken(token, secret) IN
  IF "exception" \in DOMAIN validation THEN validation
  ELSE IF ~validation.valid THEN InvalidIsExpired(validation)
  ELSE LET ageMs == t - validation.timestamp
       IN [expired |-> Older(ageMs, maxAgeMs), ageMs |-> ageMs, error |-> JsNull]

(***************************************************************************)
(* Rate limiter: lib/rate-limit.js                                         *)
(***************************************************************************)
MsPerSecond == 1000

\* createRateLimiter option windowMs, in the clock's unit
windowMs == 2

\* Math.ceil(x / 1000)
CeilSeconds(x) ==
  IF x >= 0 THEN (x + MsPerSecond - 1) \div MsPerSecond
            ELSE -((-x) \div MsPerSecond)

\* Map.prototype.delete / set / size on the records map
MapDelete(recs, key) == [k \in DOMAIN recs \ {key} |-> recs[k]]

MapSet(recs, key, rec) ==
  [k \in DOMAIN recs \cup {key} |-> IF k = key THEN rec ELSE recs[k]]

size(recs) == Cardinality(DOMAIN recs)

Expired_never(rec, t) == FALSE

\* `now > record.resetAt`: the record's window is over
Expired(rec, t) == t > rec.resetAt

NewRecord_uncounted(t) == [count |-> 0, resetAt |-> t + windowMs]

\* { count: 1, resetAt: now + windowMs }
NewRecord(t) == [count |-> 1, resetAt |-> t + windowMs]

AtLimit_offByOne(rec) == rec.count > maxAttempts

\* `record.count >= maxAttempts`
AtLimit(rec) == rec.count >= maxAttempts

cleanup_clearsAll(recs, t) == [k \in {} |-> 0]

\* cleanup(): delete every record with now > resetAt
cleanup(recs, t) ==
  [k \in {j \in DOMAIN recs : ~Expired(recs[j], t)} |-> recs[k]]

DropExpired_keeps(recs, key, t) == recs

\* check(), first part: drop the key's own expired record
DropExpired(recs, key, t) ==
  IF key \in DOMAIN recs /\ Expired(recs[key], t)
    THEN MapDelete(recs, key)
    ELSE recs

SweepIfLarge_never(recs, t) == recs

\* check(), second part: sweep when the map is above the threshold
SweepIfLarge(recs, t) ==
  IF size(recs) > cleanupThreshold THEN cleanup(recs, t) ELSE recs

\* check(key, increment): the map afterwards and the returned object
check(recs, key, increment, t) ==
  LET r2 == SweepIfLarge(DropExpired(recs, key, t), t) IN
  IF key \notin DOMAIN r2
    THEN [records |-> IF increment THEN MapSet(r2, key, NewRecord(t)) ELSE r2,
          ret |-> [allowed |-> TRUE, remaining |-> maxAttempts - 1]]
    ELSE IF AtLimit(r2[key])
      THEN [records |-> r2,
            ret |-> [allowed |-> FALSE, remaining |-> 0,
                     retryAfter |-> CeilSeconds(r2[key].resetAt - t)]]
      ELSE LET r3 == IF increment
                       THEN MapSet(r2, key, [r2[key] EXCEPT !.count = @ + 1])
                       ELSE r2
           IN [records |-> r3,
               ret |-> [allowed |-> TRUE,
                        remaining |-> maxAttempts - r3[key].count]]

\* recordFailure as it would be if it stopped counting at the limit.
recordFailure_capped(recs, key, t) ==
  IF key \notin DOMAIN recs \/ Expired(recs[key], t)
    THEN MapSet(recs, key, NewRecord(t))
  ELSE IF AtLimit(recs[key]) THEN recs
  ELSE MapSet(recs, key, [recs[key] EXCEPT !.count = @ + 1])

\* recordFailure as it would be if every call opened a window of its own.
recordFailure_restarts(recs, key, t) == MapSet(recs, key, NewRecord(t))

\* recordFailure(key)
recordFailure(recs, key, t) ==
  IF key \notin DOMAIN recs \/ Expired(recs[key], t)
    THEN MapSet(recs, key, NewRecord(t))
    ELSE MapSet(recs, key, [recs[key] EXCEPT !.count = @ + 1])

reset_keepsRecord(recs, key) == recs

\* reset(key)
reset(recs, key) == MapDelete(recs, key)

NoCall == [op |-> "none"]

EmptyMap == [k \in {} |-> 0]

InitLimiter ==
  /\ maxAttempts \in 1..MaxMaxAttempts
  /\ cleanupThreshold \in 0..MaxThreshold
  /\ records = EmptyMap
  /\ lastRes = NoCall
  /\ obs \in Keys
  /\ records2 = EmptyMap
  /\ lastRes2 = NoCall
  /\ nChk = 0
  /\ winStart = 0
  /\ taint = FALSE
  /\ nFail = 0
  /\ wasReset = "no"

\* The limiter's variables in the specifications that do not use it.
IdleLimiter ==
  /\ maxAttempts = 1
  /\ cleanupThreshold = 0
  /\ records = EmptyMap
  /\ lastRes = NoCall
  /\ obs = "ipA"
  /\ records2 = EmptyMap
  /\ lastRes2 = NoCall
  /\ nChk = 0
  /\ winStart = 0
  /\ taint = FALSE
  /\ nFail = 0
  /\ wasReset = "no"

NoToken == [token |-> JsUndefined]

\* No token is issued and no call has run: the module holds no state of its own.
InitToken == issued = NoToken /\ lastTok = NoCall

\* The env files and the lock, where a specification does not use them.
IdleEnv ==
  /\ umask = 0
  /\ dirs = {}
  /\ fs = EmptyMap
  /\ files = EmptyMap
  /\ handles = {}
  /\ lastEnv = NoCall
  /\ created = EmptyMap
  /\ onlyCreates = TRUE
  /\ removed = {}
  /\ abandoned = {}

IdleLock ==
  /\ locked = FALSE
  /\ pc = EmptyMap
  /\ stray = FALSE
  /\ lastLock = NoCall

Init == now = 0 /\ InitLimiter /\ InitToken /\ IdleEnv /\ IdleLock

\* The clock advances between calls.
Tick ==
  /\ lastRes = NoCall
  /\ now < MaxTime
  /\ now' = now + 1
  /\ UNCHANGED <<limiterVars, tokenVars, envVars, lockVars>>

\* The caller takes what the call returned.
Return ==
  /\ lastRes # NoCall
  /\ lastRes' = NoCall
  /\ lastRes2' = NoCall
  /\ UNCHANGED <<now, maxAttempts, cleanupThreshold, records, obs, records2,
                 nChk, winStart, taint, nFail, wasReset, tokenVars, envVars, lockVars>>

\* Whether check(key, ...) at time t works on a record it finds live.
FindsLive(recs, key, t) ==
  key \in DOMAIN SweepIfLarge(DropExpired(recs, key, t), t)

\* The key's entry of the map, as a map of at most one key.
Entry(recs, key) == [k \in DOMAIN recs \cap {key} |-> recs[k]]

\* What a call finds for the key: no record, an expired, a blocked or a live one.
StateOf(recs, key, t) ==
  IF key \notin DOMAIN recs THEN "absent"
  ELSE IF Expired(recs[key], t) THEN "expired"
  ELSE IF AtLimit(recs[key]) THEN "blocked"
  ELSE "live"

\* The history variables say nothing while obs has no record.
History(recs, n, start, tainted, failures) ==
  IF obs \in DOMAIN recs
    THEN nChk' = n /\ winStart' = start /\ taint' = tainted /\ nFail' = failures
    ELSE nChk' = 0 /\ winStart' = 0 /\ taint' = FALSE /\ nFail' = 0

CallCheck(key, increment) ==
  LET out == check(records, key, increment, now)
      twin == check(records2, key, increment, now)
      live == FindsLive(records, key, now)
  IN
  /\ lastRes = NoCall
  /\ records' = out.records
  /\ lastRes' = [op |-> "check", key |-> key, increment |-> increment,
                 prev |-> Entry(records, key),
                 before |-> records,
                 prevStart |-> IF key = obs THEN winStart ELSE 0,
                 afterReset |-> IF key = obs THEN wasReset ELSE "no",
                 ret |-> out.ret]
  /\ IF key = obs
       THEN /\ records2' = twin.records
            /\ lastRes2' = [ret |-> twin.ret]
            /\ History(out.records,
                       IF ~increment THEN nChk
                       ELSE IF ~live THEN 1
                       ELSE IF nChk > maxAttempts THEN nChk ELSE nChk + 1,
                       IF increment /\ ~live THEN now ELSE winStart,
                       live /\ taint,
                       IF live THEN nFail ELSE 0)
            /\ wasReset' = "no"
       ELSE /\ lastRes2' = NoCall
            /\ History(out.records, nChk, winStart, taint, nFail)
            /\ UNCHANGED <<records2, wasReset>>
  /\ UNCHANGED <<now, maxAttempts, cleanupThreshold, obs, tokenVars, envVars, lockVars>>

\* The record of obs is there and its window, which began at winStart, has
\* not passed.
InWindow == obs \in DOMAIN records /\ now <= winStart + windowMs

CallRecordFailure(key) ==
  /\ lastRes = NoCall
  /\ key \in DOMAIN records => records[key].count < MaxCount
  /\ records' = recordFailure(records, key, now)
  /\ lastRes' = [op |-> "recordFailure", key |-> key,
                 prev |-> Entry(records, key),
                 others |-> MapDelete(records, key)]
  /\ lastRes2' = NoCall
  /\ IF key = obs
       THEN /\ records2' = recordFailure(records2, key, now)
            /\ History(records',
                       IF InWindow THEN nChk ELSE 0,
                       IF InWindow THEN winStart ELSE now,
                       TRUE,
                       IF InWindow THEN nFail + 1 ELSE 1)
            /\ wasReset' = "no"
       ELSE UNCHANGED <<records2, nChk, winStart, taint, nFail, wasReset>>
  /\ UNCHANGED <<now, maxAttempts, cleanupThreshold, obs, tokenVars, envVars, lockVars>>

CallCleanup ==
  /\ lastRes = NoCall
  /\ records' = cleanup(records, now)
  /\ records2' = cleanup(records2, now)
  /\ lastRes' = [op |-> "cleanup", before |-> records]
  /\ lastRes2' = NoCall
  /\ History(records', nChk, winStart, taint, nFail)
  /\ UNCHANGED <<now, maxAttempts, cleanupThreshold, obs, wasReset, tokenVars, envVars, lockVars>>

CallReset(key) ==
  /\ lastRes = NoCall
  /\ records' = reset(records, key)
  /\ lastRes' = [op |-> "reset", key |-> key, others |-> MapDelete(records, key)]
  /\ lastRes2' = NoCall
  /\ IF key = obs
       THEN /\ records2' = reset(records2, key)
            /\ wasReset' = StateOf(records, key, now)
            /\ History(records', 0, 0, FALSE, 0)
       ELSE UNCHANGED <<records2, nChk, winStart, taint, nFail, wasReset>>
  /\ UNCHANGED <<now, maxAttempts, cleanupThreshold, obs, tokenVars, envVars, lockVars>>

NextLimiter ==
  \/ Tick
  \/ Return
  \/ \E key \in Keys, increment \in BOOLEAN : CallCheck(key, increment)
  \/ \E key \in Keys : CallRecordFailure(key)
  \/ CallCleanup
  \/ \E key \in Keys : CallReset(key)

SpecLimiter == Init /\ [][NextLimiter]_vars

(***************************************************************************)
(* Properties of the rate limiter                                          *)
(***************************************************************************)

\* The last call was check(obs) with increment = true.
CheckedObs == lastRes.op = "check" /\ lastRes.key = obs

\* C1: among the check(key) calls (increment true) of one window of a key, with
\* no recordFailure or reset in between, the first maxAttempts return
\* allowed = true and every later one returns allowed = false.
C1_FirstNAllowed ==
  (CheckedObs /\ lastRes.increment /\ ~taint /\ now < winStart + windowMs)
    => (lastRes.ret.allowed <=> nChk <= maxAttempts)

C1_Witness ==
  /\ CheckedObs /\ lastRes.increment /\ ~taint /\ now < winStart + windowMs
  /\ maxAttempts = 2 /\ nChk = 3 /\ ~lastRes.ret.allowed

\* C2: a record created at T has resetAt = T + windowMs, and a check on a key
\* that was blocked returns allowed = true with remaining = maxAttempts - 1 at
\* every time now >= T + windowMs, the instant now = resetAt included.
C2_AbsentFromResetAt ==
  /\ obs \in DOMAIN records => records[obs].resetAt = winStart + windowMs
  /\ ( /\ CheckedObs
       /\ obs \in DOMAIN lastRes.prev
       /\ lastRes.prev[obs].count >= maxAttempts
       /\ now >= lastRes.prevStart + windowMs )
     => ( lastRes.ret.allowed /\ lastRes.ret.remaining = maxAttempts - 1 )

\* The live part of a key's entry: what the limiter's calls can see of it.
LiveView(recs, key, t) ==
  [k \in {j \in DOMAIN recs \cap {key} : ~Expired(recs[j], t)} |-> recs[k]]

\* C3: key independence. Whatever calls ran on the other keys, every check(obs)
\* returns what it returns on the twin limiter that never saw those calls, and
\* the live record of obs (count, resetAt) is the same on both.
C3_KeyIndependence ==
  /\ LiveView(records, obs, now) = LiveView(records2, obs, now)
  /\ CheckedObs => lastRes.ret = lastRes2.ret

\* A check on another, exhausted key has swept the expired record of obs, which
\* the twin still holds.
C3_Witness ==
  /\ lastRes.op = "check" /\ lastRes.key # obs
  /\ ~lastRes.ret.allowed
  /\ obs \in DOMAIN records2 /\ obs \notin DOMAIN records

\* C4: after reset(K), whatever K's state was, K has no record and no other
\* key's record changed; the next check(K) returns allowed = true with
\* remaining = maxAttempts - 1 and (increment true) starts a new window.
C4_Reset ==
  /\ wasReset # "no" => obs \notin DOMAIN records
  /\ lastRes.op = "reset" =>
       /\ lastRes.key \notin DOMAIN records
       /\ MapDelete(records, lastRes.key) = lastRes.others
  /\ (CheckedObs /\ lastRes.afterReset # "no") =>
       /\ lastRes.ret = [allowed |-> TRUE, remaining |-> maxAttempts - 1]
       /\ lastRes.increment =>
            Entry(records, obs) = [k \in {obs} |-> [count |-> 1, resetAt |-> now + windowMs]]

C4_Witness ==
  /\ CheckedObs /\ lastRes.increment /\ lastRes.afterReset = "blocked"
  /\ lastRes.ret.allowed
  /\ \E k \in Keys \ {obs} : k \in DOMAIN records

(***************************************************************************)
(* The token functions under calls of a host and of clients.               *)
(***************************************************************************)

\* Session ids and secrets the host passes: word characters, ':' and '.' in
\* the id, a NUL at the end of a secret, an unpaired surrogate, U+FFFD.
SessionIds ==
  { Str(<<"a", ":", "b">>), <<55357, 56832>>, <<55296>> }

Secrets ==
  { Str(<<"k">>), Str(<<"k">>) \o <<0>>, <<55296>>, <<ReplacementChar>> }

\* Arguments that are no non-empty string.
NotStrings == { JsString(<<>>), JsNull, JsUndefined, JsNumber(7) }

SessionIdInputs == { JsString(x) : x \in SessionIds } \cup NotStrings

SecretInputs == { JsString(x) : x \in Secrets } \cup NotStrings

\* Tokens a client makes up: not a token at all, too many or too few parts,
\* a signature that is no hex, and data signed with a known secret that is
\* not `sessionId:timestamp`.
Forged ==
  { Str(<<"n", "o", "t", "-", "a", "-", "t", "o", "k", "e", "n">>),
    Str(<<"Y", "Q", ".", "Y", "Q", ".", "0", "0">>),
    Str(<<".">>),
    Str(<<"Y", "Q", "=", "=", ".", "z", "z">>),
    TokenOf(Str(<<"s", "7">>), HmacHex(Str(<<"k">>), Str(<<"s", "7">>))),
    TokenOf(Str(<<"s", ":", "x">>), HmacHex(Str(<<"k">>), Str(<<"s", ":", "x">>))),
    TokenOf(Str(<<"s", ":", "9", "x">>), HmacHex(Str(<<"k">>), Str(<<"s", ":", "9", "x">>))),
    TokenOf(Str(<<"s", ":", "x">>), HmacHex(<<55296>>, Str(<<"s", ":", "9">>))) }

\* What a caller can present as a token: the issued one, a made-up one, a
\* value that is no string.
Presented ==
  { issued.token } \cup { JsString(x) : x \in Forged } \cup NotStrings

\* The replacements tried for the character u of a token: the letter in the
\* other case, the base64 character whose value differs in the last bit, and
\* characters of neither alphabet.
OtherCaseTable ==
  [u \in 0..127 |->
     IF u >= Ord("a") /\ u <= Ord("z") THEN u - 32
     ELSE IF u >= Ord("A") /\ u <= Ord("Z") THEN u + 32
     ELSE u]

OtherCase(u) == OtherCaseTable[u]

NeitherAlphabet == { Ord("!"), Pad }

LastBitFlipped(u) ==
  LET v == Unbase64(u) IN
  IF v < 0 THEN u ELSE Base64Chars[1 + (IF v % 2 = 0 THEN v + 1 ELSE v - 1)]

Replacements(u) ==
  ({ OtherCase(u), LastBitFlipped(u), Zero } \cup NeitherAlphabet) \ {u}

\* The segment of the token that position i lies in.
SegmentOf(tok, i) ==
  LET dot == lastIndexOf(tok, Dot) + 1 IN
  IF i < dot THEN "data" ELSE IF i = dot THEN "separator" ELSE "signature"

\* The clock of the token specification starts at ClockStart.
InitTokens == now = ClockStart /\ IdleLimiter /\ InitToken /\ IdleEnv /\ IdleLock

TokTick ==
  /\ lastTok = NoCall
  /\ now < TokMaxTime
  /\ now' = now + 1
  /\ UNCHANGED <<limiterVars, tokenVars, envVars, lockVars>>

\* The wall clock is set back.
ClockBack ==
  /\ lastTok = NoCall
  /\ now > ClockStart
  /\ now' = now - 1
  /\ UNCHANGED <<limiterVars, tokenVars, envVars, lockVars>>

\* The caller takes what the call returned.
TokReturn ==
  /\ lastTok # NoCall
  /\ lastTok' = NoCall
  /\ UNCHANGED <<now, limiterVars, issued, envVars, lockVars>>

Generate(sessionId, secret) ==
  LET out == generateSessionToken(sessionId, secret, now) IN
  /\ lastTok = NoCall
  /\ lastTok' = [op |-> "generate", sessionId |-> sessionId, secret |-> secret,
                 out |-> out]
  /\ issued' = IF out.threw THEN issued
               ELSE [token |-> JsString(out.value), sessionId |-> sessionId.s,
                     secret |-> secret.s, at |-> now]
  /\ UNCHANGED <<now, limiterVars, envVars, lockVars>>

Validate(token, secret) ==
  /\ lastTok = NoCall
  /\ lastTok' = [op |-> "validate", token |-> token, secret |-> secret,
                 tampered |-> "no", ret |-> validateSessionToken(token, secret)]
  /\ UNCHANGED <<now, limiterVars, issued, envVars, lockVars>>

\* A client changes one character of the issued token and presents it.
ValidateTampered(i, u) ==
  /\ lastTok = NoCall
  /\ SegmentOf(issued.token.s, i) # "separator"
  /\ LET token == JsString([issued.token.s EXCEPT ![i] = u]) IN
     lastTok' = [op |-> "validate", token |-> token, secret |-> JsString(issued.secret),
                 tampered |-> SegmentOf(issued.token.s, i),
                 ret |-> validateSessionToken(token, JsString(issued.secret))]
  /\ UNCHANGED <<now, limiterVars, issued, envVars, lockVars>>

\* What a client appends to a token: one hex digit, two hex digits, two
\* characters that are no hex digits.
Appended == { Str(<<"0">>), Str(<<"0", "0">>), Str(<<"z", "z">>) }

\* A client appends characters to the issued token and presents it.
ValidateExtended(extra) ==
  /\ lastTok = NoCall
  /\ issued # NoToken
  /\ LET token == JsString(issued.token.s \o extra) IN
     lastTok' = [op |-> "validate", token |-> token, secret |-> JsString(issued.secret),
                 tampered |-> "extended",
                 ret |-> validateSessionToken(token, JsString(issued.secret))]
  /\ UNCHANGED <<now, limiterVars, issued, envVars, lockVars>>

\* The README's call: the issued token is validated with its secret and a
\* maximum age.
ValidateMaxAge(maxAgeMs) ==
  /\ lastTok = NoCall
  /\ issued # NoToken
  /\ LET options == [maxAgeMs |-> maxAgeMs] IN
     lastTok' = [op |-> "validate", token |-> issued.token,
                 secret |-> JsString(issued.secret), tampered |-> "no",
                 options |-> options,
                 ret |-> validateSessionTokenWith(issued.token,
                                                  JsString(issued.secret), options)]
  /\ UNCHANGED <<now, limiterVars, issued, envVars, lockVars>>

IsExpired(token, secret, maxAgeMs) ==
  /\ lastTok = NoCall
  /\ lastTok' = [op |-> "isExpired", token |-> token, secret |-> secret,
                 maxAgeMs |-> maxAgeMs,
                 ret |-> isSessionTokenExpired(token, secret, maxAgeMs, now)]
  /\ UNCHANGED <<now, limiterVars, issued, envVars, lockVars>>

NextTokens ==
  \/ TokTick
  \/ ClockBack
  \/ TokReturn
  \/ \E sessionId \in SessionIdInputs, secret \in SecretInputs :
       Generate(sessionId, secret)
  \/ \E token \in Presented, secret \in SecretInputs : Validate(token, secret)
  \/ /\ issued # NoToken
     /\ \E i \in DOMAIN issued.token.s :
          \E u \in Replacements(issued.token.s[i]) : ValidateTampered(i, u)
  \/ \E extra \in Appended : ValidateExtended(extra)
  \/ \E maxAgeMs \in 0..MaxAgeMs : ValidateMaxAge(maxAgeMs)
  \/ \E token \in Presented, secret \in SecretInputs, maxAgeMs \in 0..MaxAgeMs :
       IsExpired(token, secret, maxAgeMs)

SpecTokens == InitTokens /\ [][NextTokens]_vars

(***************************************************************************)
(* Session tokens: properties                                              *)
(***************************************************************************)

\* A string without unpaired surrogates.
RECURSIVE IsWellFormed(_)
IsWellFormed(str) ==
  IF str = <<>> THEN TRUE
  ELSE IF IsHighSurrogate(Head(str))
    THEN /\ Len(str) >= 2
         /\ IsLowSurrogate(str[2])
         /\ IsWellFormed(SubSeq(str, 3, Len(str)))
  ELSE ~IsLowSurrogate(Head(str)) /\ IsWellFormed(Tail(str))

\* The last call validated the issued token, unchanged.
ValidatedIssued ==
  /\ lastTok.op = "validate"
  /\ lastTok.tampered = "no"
  /\ issued # NoToken
  /\ lastTok.token = issued.token

RoundTrip == ValidatedIssued /\ lastTok.secret = JsString(issued.secret)

Accepted(sessionId, timestamp) ==
  [valid |-> TRUE, sessionId |-> sessionId, timestamp |-> timestamp,
   error |-> JsNull]

C6_TamperRejected ==
  (lastTok.op = "validate" /\ lastTok.tampered # "no") => ~lastTok.ret.valid

\* The last call validated the issued token with another non-empty secret.
WrongKey ==
  /\ ValidatedIssued
  /\ ~NotNonEmptyString(lastTok.secret)
  /\ lastTok.secret.s # issued.secret

\* Two secrets that HMAC takes for one key.
SameHmacKey(a, b) ==
  StripTrailingZeros(Utf8Encode(a)) = StripTrailingZeros(Utf8Encode(b))

InvalidSignature == [valid |-> FALSE, error |-> Msg("Invalid signature")]

ExpiryOfIssued ==
  /\ lastTok.op = "isExpired"
  /\ issued # NoToken
  /\ lastTok.token = issued.token
  /\ lastTok.secret = JsString(issued.secret)

\* C8: for a valid token generated at T, isSessionTokenExpired at time now
\* returns expired = (now - T > maxAgeMs), with ageMs = now - T also when it
\* is negative; and a token reported expired is reported expired at every
\* later time.
C8_Expiry ==
  ExpiryOfIssued =>
    /\ lastTok.ret = [expired |-> (now - issued.at > lastTok.maxAgeMs),
                      ageMs |-> now - issued.at, error |-> JsNull]
    /\ lastTok.ret.expired =>
         \A later \in now..TokMaxTime :
           isSessionTokenExpired(lastTok.token, lastTok.secret,
                                 lastTok.maxAgeMs, later).expired

C8_Witness ==
  /\ ExpiryOfIssued
  /\ lastTok.ret.expired
  /\ lastTok.ret.ageMs = lastTok.maxAgeMs + 1
  /\ now < TokMaxTime

\* C9: when validateSessionToken returns valid=false, isSessionTokenExpired
\* returns expired=true with the same error and nothing else, for every
\* maxAgeMs.
C9_FailClosed ==
  lastTok.op = "isExpired" =>
    LET validation == validateSessionToken(lastTok.token, lastTok.secret) IN
    ~validation.valid =>
      lastTok.ret = [expired |-> TRUE, error |-> validation.error]

C9_Witness ==
  /\ lastTok.op = "isExpired"
  /\ lastTok.maxAgeMs = MaxAgeMs
  /\ issued # NoToken
  /\ lastTok.token = issued.token
  /\ lastTok.ret.expired
  /\ lastTok.ret.error = Msg("Invalid signature")

\* C10: validateSessionToken returns an object for every token and every
\* secret and never throws; valid is true exactly when error is null, and a
\* result with valid=false carries a non-empty error string.
C10_Total ==
  lastTok.op = "validate" =>
    /\ "exception" \notin DOMAIN lastTok.ret
    /\ {"valid", "error"} \subseteq DOMAIN lastTok.ret
    /\ lastTok.ret.valid \in BOOLEAN
    /\ lastTok.ret.valid <=> lastTok.ret.error = JsNull
    /\ ~lastTok.ret.valid =>
         lastTok.ret.error.t = "string" /\ lastTok.ret.error.text # ""

C10_Witness ==
  /\ lastTok.op = "validate"
  /\ lastTok.token = JsString(Str(<<"Y", "Q", "=", "=", ".", "z", "z">>))
  /\ ~NotNonEmptyString(lastTok.secret)
  /\ lastTok.ret = InvalidSignature

\* A value that is a string of at least one character.
IsNonEmptyString(v) == v.t = "string" /\ v.s # <<>>

LowerHex == { HexDigits[i] : i \in 1..16 }

\* C11: generateSessionToken throws, and returns no token, when sessionId or
\* secret is empty, null or no string; for non-empty strings it returns
\* base64(sessionId:timestamp), a '.', and a signature of exactly 64
\* lowercase hex characters.
C11_Generate ==
  lastTok.op = "generate" =>
    IF IsNonEmptyString(lastTok.sessionId) /\ IsNonEmptyString(lastTok.secret)
    THEN /\ ~lastTok.out.threw
         /\ issued.token = JsString(lastTok.out.value)
         /\ LET parts == split(lastTok.out.value, Dot)
                data == lastTok.sessionId.s \o <<Colon>> \o ToDecimal(now)
            IN /\ Len(parts) = 2
               /\ parts[1] = Base64Encode(Utf8Encode(data))
               /\ IsWellFormed(data) => Utf8Decode(Base64Decode(parts[1])) = data
               /\ Len(parts[2]) = 64
               /\ \A i \in 1..64 : parts[2][i] \in LowerHex
    ELSE /\ lastTok.out.threw
         /\ "value" \notin DOMAIN lastTok.out
         /\ lastTok.out.message # ""

C11_Witness ==
  /\ lastTok.op = "generate"
  /\ lastTok.sessionId = JsString(<<55357, 56832>>)
  /\ lastTok.secret = JsString(Str(<<"k">>))
  /\ now = TokMaxTime
  /\ ~lastTok.out.threw

(***************************************************************************)
(* Session env files: lib/env-file.js                                      *)
(*                                                                         *)
(* The file system is the set of directories `dirs` and the map `fs` from  *)
(* a path to the mode and content of the file there.  A call of fs that    *)
(* can fail for a reason outside the model (permissions of the directory,  *)
(* a path that is no directory) takes the failure as an argument.          *)
(***************************************************************************)
Slash == Ord("/")
EqualsSign == Ord("=")
LineFeed == 10
DotDot == Str(<<".", ".">>)
OneDot == Str(<<".">>)

\* 0o600
EnvFileMode == 384

\* Array.prototype.join(sep), sep one character
RECURSIVE join(_, _)
join(strs, sep) ==
  IF strs = <<>> THEN <<>>
  ELSE IF Len(strs) = 1 THEN strs[1]
  ELSE strs[1] \o <<sep>> \o join(Tail(strs), sep)

\* path.normalize on the segments of a path: '.' and empty segments go, '..'
\* takes the segment before it with it; above the root it goes, at the
\* start of a relative path it stays.
RECURSIVE Resolve(_, _, _)
Resolve(segments, done, absolute) ==
  IF segments = <<>> THEN done
  ELSE LET s == Head(segments)
           rest == Tail(segments)
       IN IF s = <<>> \/ s = OneDot THEN Resolve(rest, done, absolute)
          ELSE IF s # DotDot THEN Resolve(rest, Append(done, s), absolute)
          ELSE IF done # <<>> /\ done[Len(done)] # DotDot
            THEN Resolve(rest, SubSeq(done, 1, Len(done) - 1), absolute)
          ELSE IF absolute THEN Resolve(rest, done, absolute)
          ELSE Resolve(rest, Append(done, s), absolute)

\* path.normalize(path), for a path that does not end in '/'
normalize(path) ==
  LET absolute == path # <<>> /\ path[1] = Slash
      body == join(Resolve(split(path, Slash), <<>>, absolute), Slash)
  IN IF absolute THEN <<Slash>> \o body
     ELSE IF body = <<>> THEN OneDot ELSE body

\* path.join(dir, name), both non-empty
pathJoin(dir, name) == normalize(dir \o <<Slash>> \o name)

\* path.dirname(path) of a normalized path
dirname(path) ==
  LET i == lastIndexOf(path, Slash) IN
  IF i = -1 THEN OneDot ELSE IF i = 0 THEN <<Slash>> ELSE slice(path, 0, i)

\* The directories mkdir makes with `recursive: true`: the path and the
\* directories above it.
Ancestors(path) ==
  { SubSeq(path, 1, i) :
      i \in { j \in 1..Len(path) : j = Len(path) \/ path[j + 1] = Slash } }
    \cup { <<Slash>> }

\* mode & ~mask, on the lowest `bits` bits
RECURSIVE AndNot(_, _, _)
AndNot(mode, mask, bits) ==
  IF bits = 0 THEN 0
  ELSE 2 * AndNot(mode \div 2, mask \div 2, bits - 1)
         + (IF mode % 2 = 1 /\ mask % 2 = 0 THEN 1 ELSE 0)

\* fs.mkdirSync(path, { recursive: true }): no error when the directory
\* exists; `error` is what makes it fail when it does not.
mkdirSync(world, path, error) ==
  IF path \in world.dirs THEN [threw |-> FALSE, world |-> world]
  ELSE IF error # "none" THEN [threw |-> TRUE, code |-> error, world |-> world]
  ELSE [threw |-> FALSE,
        world |-> [world EXCEPT !.dirs = world.dirs \cup Ancestors(path)]]

\* fs.writeFileSync(path, content, { mode }): the mode is given to open(2),
\* which uses it, less the umask, for a file it creates; a file that exists
\* is truncated and keeps its mode.
writeFileSync(world, path, content, mode, error, mask) ==
  IF dirname(path) \notin world.dirs
    THEN [threw |-> TRUE, code |-> "ENOENT", world |-> world]
  ELSE IF error # "none" THEN [threw |-> TRUE, code |-> error, world |-> world]
  ELSE [threw |-> FALSE,
        world |-> [world EXCEPT !.fs =
          IF path \in DOMAIN world.fs
            THEN MapSet(world.fs, path, [mode |-> world.fs[path].mode, content |-> content])
            ELSE MapSet(world.fs, path,
                        [mode |-> AndNot(mode, mask, 12), content |-> content])]]

\* fs.unlinkSync(path)
unlinkSync(world, path, error) ==
  IF path \notin DOMAIN world.fs
    THEN [threw |-> TRUE, code |-> "ENOENT", world |-> world]
  ELSE IF error # "none" THEN [threw |-> TRUE, code |-> error, world |-> world]
  ELSE [threw |-> FALSE, world |-> [world EXCEPT !.fs = MapDelete(world.fs, path)]]

\* An object: its own enumerable string-keyed properties in insertion order.
JsObject(entries) == [t |-> "object", entries |-> entries]

\* A key that is an array index: Object.entries lists these first, ascending.
IsIndexKey(key) ==
  /\ key # <<>>
  /\ \A i \in 1..Len(key) : IsDigit(key[i])
  /\ Len(key) = 1 \/ key[1] # Zero

RECURSIVE Ascending(_)
Ascending(entries) ==
  IF entries = <<>> THEN <<>>
  ELSE LET i == CHOOSE j \in 1..Len(entries) :
                  \A k \in 1..Len(entries) :
                    DecimalValue(entries[j].key) <= DecimalValue(entries[k].key)
       IN <<entries[i]>>
            \o Ascending(SubSeq(entries, 1, i - 1) \o SubSeq(entries, i + 1, Len(entries)))

ObjectEntries_insertionOrder(obj) == obj.entries

\* Object.entries(obj)
ObjectEntries(obj) ==
  LET Indexed(e) == IsIndexKey(e.key)
      Named(e) == ~IsIndexKey(e.key)
  IN Ascending(SelectSeq(obj.entries, Indexed)) \o SelectSeq(obj.entries, Named)

\* `${value}` of a string or a non-negative integer
TemplateString(v) == IF v.t = "string" THEN v.s ELSE ToDecimal(v.n)

Retained_nonEmpty(entry) ==
  entry.value # JsUndefined /\ entry.value # JsNull

\* `value !== undefined && value !== null && value !== ''`
Retained(entry) ==
  entry.value # JsUndefined /\ entry.value # JsNull /\ entry.value # JsString(<<>>)

\* `${key}=${value}`
EnvLine(entry) == entry.key \o <<EqualsSign>> \o TemplateString(entry.value)

\* The lines of the env file, one per retained entry.
EnvLines(credentials) ==
  LET kept == SelectSeq(ObjectEntries(credentials), Retained)
  IN [i \in 1..Len(kept) |-> EnvLine(kept[i])]

\* `Object.entries(credentials).filter(..).map(..).join('\n') + '\n'`
EnvContent(credentials) == join(EnvLines(credentials), LineFeed) \o <<LineFeed>>

\* `!credentials || typeof credentials !== 'object'`
NotAnObject(v) == Falsy(v) \/ v.t # "object"

SessionPrefix == Str(<<"s", "e", "s", "s", "i", "o", "n", "-">>)
EnvSuffix == Str(<<".", "e", "n", "v">>)

\* `session-${sessionId}.env`
EnvFileName(sessionId) == SessionPrefix \o sessionId \o EnvSuffix

Thrown(message) == [threw |-> TRUE, message |-> message]

\* createSessionEnvFile as it would be if it made the directory before it
\* looked at hostPath and credentials.
createSessionEnvFile_mkdirFirst(options, world, faults, mask) ==
  IF NotNonEmptyString(options.sessionId)
    THEN [out |-> Thrown("sessionId must be a non-empty string"), world |-> world]
  ELSE IF NotNonEmptyString(options.containerPath)
    THEN [out |-> Thrown("containerPath must be a non-empty string"), world |-> world]
  ELSE LET made == mkdirSync(world, options.containerPath.s, faults.mkdir) IN
    IF NotNonEmptyString(options.hostPath)
      THEN [out |-> Thrown("hostPath must be a non-empty string"), world |-> made.world]
    ELSE IF NotAnObject(options.credentials)
      THEN [out |-> Thrown("credentials must be an object"), world |-> made.world]
    ELSE LET filename == EnvFileName(options.sessionId.s)
             fullContainerPath == pathJoin(options.containerPath.s, filename)
             written == writeFileSync(made.world, fullContainerPath,
                                      EnvContent(options.credentials),
                                      EnvFileMode, faults.write, mask)
         IN IF made.threw /\ made.code # "EEXIST"
              THEN [out |-> Thrown("Failed to create env directory"), world |-> made.world]
            ELSE IF written.threw
              THEN [out |-> Thrown("Failed to write env file"), world |-> written.world]
            ELSE [out |-> [threw |-> FALSE,
                           value |-> [containerPath |-> fullContainerPath,
                                      hostPath |-> pathJoin(options.hostPath.s, filename)]],
                  world |-> written.world]

\* createSessionEnvFile(options) in the file system `world`: what it throws or
\* the paths of the handle it returns, and the file system it leaves.
\* faults.mkdir and faults.write make the calls of fs fail.
createSessionEnvFile(options, world, faults, mask) ==
  IF NotNonEmptyString(options.sessionId)
    THEN [out |-> Thrown("sessionId must be a non-empty string"), world |-> world]
  ELSE IF NotNonEmptyString(options.containerPath)
    THEN [out |-> Thrown("containerPath must be a non-empty string"), world |-> world]
  ELSE IF NotNonEmptyString(options.hostPath)
    THEN [out |-> Thrown("hostPath must be a non-empty string"), world |-> world]
  ELSE IF NotAnObject(options.credentials)
    THEN [out |-> Thrown("credentials must be an object"), world |-> world]
  ELSE LET filename == EnvFileName(options.sessionId.s)
           fullContainerPath == pathJoin(options.containerPath.s, filename)
           fullHostPath == pathJoin(options.hostPath.s, filename)
           envContent == EnvContent(options.credentials)
           made == mkdirSync(world, options.containerPath.s, faults.mkdir)
           written == writeFileSync(made.world, fullContainerPath, envContent,
                                    EnvFileMode, faults.write, mask)
       IN IF made.threw /\ made.code # "EEXIST"
            THEN [out |-> Thrown("Failed to create env directory"), world |-> made.world]
          ELSE IF written.threw
            THEN [out |-> Thrown("Failed to write env file"), world |-> written.world]
          ELSE [out |-> [threw |-> FALSE,
                         value |-> [containerPath |-> fullContainerPath,
                                    hostPath |-> fullHostPath]],
                world |-> written.world]

Swallow_rethrow(err) == [threw |-> err.code # "ENOENT", logged |-> FALSE]

\* The catch block of the cleanup closure: logs unless the file was gone.
Swallow(err) == [threw |-> FALSE, logged |-> err.code # "ENOENT"]

\* handle.cleanup(): the closure createSessionEnvFile returns
HandleCleanup(handle, world, error) ==
  LET unlinked == unlinkSync(world, handle.containerPath, error) IN
  IF unlinked.threw
    THEN [out |-> Swallow(unlinked), world |-> unlinked.world]
    ELSE [out |-> [threw |-> FALSE, logged |-> FALSE], world |-> unlinked.world]

\* cleanup as it would be if it kept the entry of a file it could not delete.
managerCleanup_keepsUndeleted(fileMap, sessionId, world, error) ==
  IF sessionId \notin DOMAIN fileMap
    THEN [out |-> [threw |-> FALSE, logged |-> FALSE], files |-> fileMap, world |-> world]
  ELSE LET done == HandleCleanup(fileMap[sessionId], world, error) IN
    [out |-> done.out,
     files |-> IF done.out.logged THEN fileMap ELSE MapDelete(fileMap, sessionId),
     world |-> done.world]

\* createEnvFileManager.cleanup(sessionId): the tracked handle's cleanup,
\* then files.delete
managerCleanup(fileMap, sessionId, world, error) ==
  IF sessionId \notin DOMAIN fileMap
    THEN [out |-> [threw |-> FALSE, logged |-> FALSE], files |-> fileMap, world |-> world]
  ELSE LET done == HandleCleanup(fileMap[sessionId], world, error) IN
    [out |-> done.out,
     files |-> IF done.out.threw THEN fileMap ELSE MapDelete(fileMap, sessionId),
     world |-> done.world]

\* create as it would be if it cleaned the previous entry up only after the
\* new file was written.
managerCreate_writesFirst(fileMap, options, world, faults, mask, id) ==
  LET made == createSessionEnvFile(options, world, faults, mask)
      cleaned == managerCleanup(fileMap, options.sessionId, world, faults.unlink)
      remade == createSessionEnvFile(options, cleaned.world, faults, mask)
  IN IF made.out.threw
       THEN [out |-> made.out, files |-> fileMap, world |-> made.world]
     ELSE LET envFile == [id |-> id,
                          containerPath |-> remade.out.value.containerPath,
                          hostPath |-> remade.out.value.hostPath]
          IN [out |-> [threw |-> FALSE, value |-> envFile],
              files |-> MapSet(cleaned.files, options.sessionId, envFile),
              world |-> remade.world]

\* createEnvFileManager.create(sessionId, credentials); `id` is the identity
\* of the handle object it makes.
managerCreate(fileMap, options, world, faults, mask, id) ==
  LET cleaned == managerCleanup(fileMap, options.sessionId, world, faults.unlink)
      made == createSessionEnvFile(options, cleaned.world, faults, mask)
  IN IF cleaned.out.threw
       THEN [out |-> cleaned.out, files |-> cleaned.files, world |-> cleaned.world]
     ELSE IF made.out.threw
       THEN [out |-> made.out, files |-> cleaned.files, world |-> made.world]
     ELSE LET envFile == [id |-> id,
                          containerPath |-> made.out.value.containerPath,
                          hostPath |-> made.out.value.hostPath]
          IN [out |-> [threw |-> FALSE, value |-> envFile],
              files |-> MapSet(cleaned.files, options.sessionId, envFile),
              world |-> made.world]

\* createEnvFileManager.cleanupAll(): cleanup for every tracked sessionId;
\* unlink fails on the paths in `failing`.
RECURSIVE cleanupAll(_, _, _)
cleanupAll(fileMap, world, failing) ==
  IF DOMAIN fileMap = {}
    THEN [out |-> [threw |-> FALSE, logged |-> FALSE], files |-> fileMap, world |-> world]
  ELSE LET sessionId == CHOOSE s \in DOMAIN fileMap : TRUE
           error == IF fileMap[sessionId].containerPath \in failing
                      THEN "EPERM" ELSE "none"
           one == managerCleanup(fileMap, sessionId, world, error)
           rest == cleanupAll(one.files, one.world, failing)
       IN IF one.out.threw THEN one
          ELSE [rest EXCEPT !.out.logged = one.out.logged \/ rest.out.logged]

\* createEnvFileManager.get(sessionId)
get(fileMap, sessionId) ==
  IF sessionId \in DOMAIN fileMap THEN fileMap[sessionId] ELSE JsUndefined

\* createEnvFileManager.size()
managerSize(fileMap) == Cardinality(DOMAIN fileMap)

(***************************************************************************)
(* Session env files: the state machine.  One manager, made with           *)
(* createEnvFileManager({ containerPath, hostPath }); its callers also     *)
(* call createSessionEnvFile themselves and keep the handles they get.     *)
(***************************************************************************)
ManagerContainerPath == Str(<<"/", "r", "u", "n", "/", "e", "n", "v">>)
ManagerHostPath == Str(<<"/", "t", "m", "p", "/", "e", "n", "v">>)

\* Session ids: two plain ones, and one that names the file of "a" by a path.
EnvSessionIds ==
  { Str(<<"a">>), Str(<<"b">>),
    Str(<<"x", "/", ".", ".", "/", "s", "e", "s", "s", "i", "o", "n", "-", "a">>) }

EnvSessionIdInputs ==
  { JsString(x) : x \in EnvSessionIds } \cup { JsString(<<>>), JsNull }

KV(key, value) == [key |-> Str(<<key>>), value |-> value]

\* Credentials: none; values that are dropped between values that are kept;
\* a key that is an array index; a value of two lines.
Credentials ==
  { JsObject(<<>>),
    JsObject(<<KV("T", JsString(Str(<<"b">>))), KV("U", JsUndefined),
               KV("E", JsString(<<>>)), KV("N", JsNull), KV("Z", JsNumber(0))>>),
    JsObject(<<KV("B", JsString(Str(<<"x">>))), KV("2", JsString(Str(<<"y">>)))>>),
    JsObject(<<KV("K", JsString(<<Ord("a"), LineFeed, Ord("b")>>))>>) }

\* What callers pass to manager.create: two of these, and no object.
ManagerCredentials ==
  { c \in Credentials : Len(c.entries) \in {2, 5} } \cup { JsNull }

\* The ways the calls of fs fail during one call of the library.
Faults ==
  [mkdir : {"none", "EEXIST", "EACCES"}, write : {"none", "EACCES"},
   unlink : {"none", "EPERM"}]

\* umask 022
Umasks == { 18 }

\* 0o644, the mode of a file that another program left
StaleMode == EnvFileMode + 36

StaleFile == [mode |-> StaleMode, content |-> Str(<<"o", "l", "d">>) \o <<LineFeed>>]

ManagerOptions(sessionId, credentials) ==
  [sessionId |-> sessionId, containerPath |-> JsString(ManagerContainerPath),
   hostPath |-> JsString(ManagerHostPath), credentials |-> credentials]

\* The options callers pass to createSessionEnvFile themselves.
DirectOptions ==
  { ManagerOptions(JsString(Str(<<"a">>)), c) : c \in Credentials }
    \cup { [ManagerOptions(JsString(Str(<<"b">>)), JsObject(<<>>))
              EXCEPT !.containerPath = p] : p \in { JsNull, JsString(<<>>) } }
    \cup { [ManagerOptions(JsString(Str(<<"b">>)), JsObject(<<>>))
              EXCEPT !.hostPath = p] : p \in { JsNull, JsNumber(7) } }
    \cup { ManagerOptions(s, JsObject(<<>>)) : s \in { JsString(<<>>), JsNumber(7) } }
    \cup { ManagerOptions(JsString(Str(<<"b">>)), c) :
             c \in { JsUndefined, JsString(Str(<<"x">>)) } }

World == [dirs |-> dirs, fs |-> fs]

\* createEnvFileManager has tried to make the directory; a file of the
\* name of session "a" may be there from before.
InitEnv ==
  /\ now = 0 /\ IdleLimiter /\ InitToken /\ IdleLock
  /\ umask \in Umasks
  /\ \/ dirs = {} /\ fs = EmptyMap
     \/ /\ dirs = Ancestors(ManagerContainerPath)
        /\ fs \in { EmptyMap,
                    MapSet(EmptyMap,
                           pathJoin(ManagerContainerPath, EnvFileName(Str(<<"a">>))),
                           StaleFile) }
  /\ files = EmptyMap
  /\ handles = {}
  /\ lastEnv = NoCall
  /\ created = EmptyMap
  /\ onlyCreates = TRUE
  /\ removed = {}
  /\ abandoned = {}

\* The caller takes what the call returned.
EnvReturn ==
  /\ lastEnv # NoCall
  /\ lastEnv' = NoCall
  /\ UNCHANGED <<now, limiterVars, tokenVars, lockVars,
                 umask, dirs, fs, files, handles, created, onlyCreates, removed,
                 abandoned>>

\* An argument that is no non-empty string, or credentials that are no object.
InvalidOptions(options) ==
  \/ \E v \in { options.sessionId, options.containerPath, options.hostPath } :
       v.t # "string" \/ v.s = <<>>
  \/ options.credentials.t # "object"

\* No filesystem call fails.
NoFaults == [mkdir |-> "none", write |-> "none", unlink |-> "none"]

\* mkdir can only fail where the directory is missing.
Possible(faults, containerPath) ==
  faults.mkdir # "none" => containerPath \notin dirs

NextHandle == Cardinality(handles) + 1

\* The handles of `called` whose cleanup() left their file absent.
LeftAbsent(called, after) ==
  { h.id : h \in { x \in called : x.containerPath \notin DOMAIN after.fs } }

\* The paths of the handles of `called` the manager tracks no longer
\* although the file that was there is there still: the unlink failed.
LeftBehind(called, tracked, after, before) ==
  { h.containerPath :
      h \in { x \in called : /\ \A s \in DOMAIN tracked : tracked[s].id # x.id
                              /\ x.containerPath \in DOMAIN before.fs
                              /\ x.containerPath \in DOMAIN after.fs } }

CallCreateSessionEnvFile(options, faults) ==
  LET res == createSessionEnvFile(options, World, faults, umask)
      envFile == [id |-> NextHandle,
                  containerPath |-> res.out.value.containerPath,
                  hostPath |-> res.out.value.hostPath]
  IN /\ lastEnv = NoCall
     /\ faults.unlink = "none"
     /\ InvalidOptions(options) => faults = NoFaults
     /\ ~InvalidOptions(options) => Possible(faults, options.containerPath.s)
     /\ res.out.threw \/ NextHandle <= MaxHandles
     /\ dirs' = res.world.dirs
     /\ fs' = res.world.fs
     /\ handles' = IF res.out.threw THEN handles ELSE handles \cup {envFile}
     /\ lastEnv' = [op |-> "createSessionEnvFile", options |-> options,
                    faults |-> faults,
                    out |-> IF res.out.threw THEN res.out
                            ELSE [threw |-> FALSE, value |-> envFile],
                    before |-> World, filesBefore |-> files,
                    removedBefore |-> removed]
     /\ onlyCreates' = FALSE
     /\ UNCHANGED <<now, limiterVars, tokenVars, lockVars,
                    umask, files, created, removed, abandoned>>

ManagerCreate(sessionId, credentials, faults) ==
  LET options == ManagerOptions(sessionId, credentials)
      res == managerCreate(files, options, World, faults, umask, NextHandle)
      old == IF sessionId \in DOMAIN files THEN {files[sessionId]} ELSE {}
      cleaned == managerCleanup(files, sessionId, World, faults.unlink)
  IN /\ lastEnv = NoCall
     /\ Possible(faults, ManagerContainerPath)
     /\ faults.unlink # "none" => sessionId \in DOMAIN files
     /\ res.out.threw \/ NextHandle <= MaxHandles
     /\ dirs' = res.world.dirs
     /\ fs' = res.world.fs
     /\ files' = res.files
     /\ handles' = IF res.out.threw THEN handles ELSE handles \cup {res.out.value}
     /\ created' = IF res.out.threw THEN MapDelete(created, sessionId)
                   ELSE MapSet(created, sessionId,
                               [credentials |-> credentials, id |-> NextHandle])
     /\ onlyCreates' = (onlyCreates /\ ~res.out.threw)
     /\ removed' = removed \cup LeftAbsent(old, cleaned.world)
     /\ abandoned' = abandoned \cup LeftBehind(old, files', cleaned.world, World)
     /\ lastEnv' = [op |-> "create", sessionId |-> sessionId,
                    credentials |-> credentials, out |-> res.out,
                    logged |-> cleaned.out.logged,
                    before |-> World, filesBefore |-> files,
                    removedBefore |-> removed]
     /\ UNCHANGED <<now, limiterVars, tokenVars, lockVars, umask>>

ManagerCleanup(sessionId, error) ==
  LET res == managerCleanup(files, sessionId, World, error)
      old == IF sessionId \in DOMAIN files THEN {files[sessionId]} ELSE {}
  IN /\ lastEnv = NoCall
     /\ error # "none" => sessionId \in DOMAIN files
     /\ dirs' = res.world.dirs
     /\ fs' = res.world.fs
     /\ files' = res.files
     /\ created' = MapDelete(created, sessionId)
     /\ onlyCreates' = FALSE
     /\ removed' = removed \cup LeftAbsent(old, res.world)
     /\ abandoned' = abandoned \cup LeftBehind(old, files', res.world, World)
     /\ lastEnv' = [op |-> "cleanup", sessionId |-> sessionId, out |-> res.out,
                    before |-> World, filesBefore |-> files,
                    abandonedBefore |-> abandoned,
                    removedBefore |-> removed]
     /\ UNCHANGED <<now, limiterVars, tokenVars, lockVars, umask, handles>>

ManagerCleanupAll(failing) ==
  LET res == cleanupAll(files, World, failing)
      old == { files[s] : s \in DOMAIN files }
  IN /\ lastEnv = NoCall
     /\ dirs' = res.world.dirs
     /\ fs' = res.world.fs
     /\ files' = res.files
     /\ created' = EmptyMap
     /\ onlyCreates' = FALSE
     /\ removed' = removed \cup LeftAbsent(old, res.world)
     /\ abandoned' = abandoned \cup LeftBehind(old, files', res.world, World)
     /\ lastEnv' = [op |-> "cleanupAll", out |-> res.out,
                    before |-> World, filesBefore |-> files,
                    abandonedBefore |-> abandoned,
                    removedBefore |-> removed]
     /\ UNCHANGED <<now, limiterVars, tokenVars, lockVars, umask, handles>>

\* A caller invokes the cleanup closure of a handle it was given.
CallHandleCleanup(handle, error) ==
  LET res == HandleCleanup(handle, World, error) IN
  /\ lastEnv = NoCall
  /\ dirs' = res.world.dirs
  /\ fs' = res.world.fs
  /\ removed' = removed \cup LeftAbsent({handle}, res.world)
  /\ onlyCreates' = FALSE
  /\ lastEnv' = [op |-> "handle.cleanup", handle |-> handle, out |-> res.out,
                 before |-> World, filesBefore |-> files,
                 removedBefore |-> removed]
  /\ UNCHANGED <<now, limiterVars, tokenVars, lockVars, umask, files, handles,
                 created, abandoned>>

NextEnv ==
  \/ EnvReturn
  \/ \E options \in DirectOptions, faults \in Faults :
       CallCreateSessionEnvFile(options, faults)
  \/ \E sessionId \in EnvSessionIdInputs, credentials \in ManagerCredentials,
        faults \in Faults : ManagerCreate(sessionId, credentials, faults)
  \/ \E sessionId \in EnvSessionIdInputs, error \in {"none", "EPERM"} :
       ManagerCleanup(sessionId, error)
  \/ \E failing \in SUBSET DOMAIN fs : ManagerCleanupAll(failing)
  \/ \E handle \in handles, error \in {"none", "EPERM"} :
       CallHandleCleanup(handle, error)

SpecEnv == InitEnv /\ [][NextEnv]_vars

\* The callers of createSessionEnvFile alone, with the handles they keep.
NextDirect ==
  \/ EnvReturn
  \/ \E options \in DirectOptions, faults \in Faults :
       CallCreateSessionEnvFile(options, faults)
  \/ \E handle \in handles, error \in {"none", "EPERM"} :
       CallHandleCleanup(handle, error)

SpecDirect == InitEnv /\ [][NextDirect]_vars

(***************************************************************************)
(* Session env files: properties                                           *)
(***************************************************************************)

\* The last call created an env file and returned its handle.
CreatedFile ==
  /\ lastEnv.op \in {"createSessionEnvFile", "create"}
  /\ ~lastEnv.out.threw

WrittenPath == lastEnv.out.value.containerPath

\* C12: when createSessionEnvFile returns, the file at the handle's
\* containerPath has mode exactly 0600, whether or not a file was there
\* before the call.
C12_Mode0600 ==
  CreatedFile => fs[WrittenPath].mode = EnvFileMode

\* The credentials of the last call.
GivenCredentials ==
  IF lastEnv.op = "create" THEN lastEnv.credentials ELSE lastEnv.options.credentials

IsPresent(entry) ==
  entry.value \notin { JsUndefined, JsNull, JsString(<<>>) }

\* 'KEY=VALUE' for the entries with a value, in insertion order.
ExpectedLines(credentials) ==
  LET kept == SelectSeq(credentials.entries, IsPresent)
  IN [i \in 1..Len(kept) |->
        kept[i].key \o <<EqualsSign>> \o TemplateString(kept[i].value)]

\* The newline-terminated lines of a text; what follows the last newline
\* counts as a line too.
LinesOf(text) ==
  LET pieces == split(text, LineFeed) IN
  IF pieces[Len(pieces)] = <<>> THEN SubSeq(pieces, 1, Len(pieces) - 1) ELSE pieces

\* C13: the file holds exactly one line 'KEY=VALUE' for each entry whose
\* value is not undefined, null or '', in insertion order, each ended by a
\* newline; with no such entry it holds one newline.
C13_Content ==
  CreatedFile =>
    LET content == fs[WrittenPath].content
        expected == ExpectedLines(GivenCredentials)
    IN /\ content[Len(content)] = LineFeed
       /\ IF expected = <<>> THEN content = <<LineFeed>>
          ELSE LinesOf(content) = expected

\* The last call was a cleanup: of a handle, or of the manager for a sessionId.
CleanupCall == lastEnv.op \in {"handle.cleanup", "cleanup"}

NothingChanged ==
  /\ World = lastEnv.before
  /\ files = lastEnv.filesBefore

\* cleanup never raises; when the deletion did not fail the file is absent;
\* manager.cleanup of an untracked sessionId changes nothing.
CleanupReturns ==
  /\ CleanupCall => ~lastEnv.out.threw
  /\ (lastEnv.op = "handle.cleanup" /\ ~lastEnv.out.logged)
       => lastEnv.handle.containerPath \notin DOMAIN fs
  /\ (lastEnv.op = "cleanup" /\ lastEnv.sessionId \notin DOMAIN lastEnv.filesBefore)
       => NothingChanged /\ ~lastEnv.out.logged

C15_OneEntryPerSession ==
  onlyCreates =>
    /\ DOMAIN files = DOMAIN created
    /\ managerSize(files) = Cardinality(DOMAIN created)
    /\ \A s \in DOMAIN created :
         /\ get(files, s).id = created[s].id
         /\ get(files, s).containerPath \in DOMAIN fs
         /\ fs[get(files, s).containerPath].content = EnvContent(created[s].credentials)

(***************************************************************************)
(* Rate limiter: further properties                                        *)
(***************************************************************************)

\* The last call was a check that was refused.
Blocked == lastRes.op = "check" /\ ~lastRes.ret.allowed

\* The least number of whole seconds that is no less than ms milliseconds.
SecondsCovering(ms) ==
  CHOOSE n \in 0..ms : n * MsPerSecond >= ms /\ (n - 1) * MsPerSecond < ms

\* C16: a check that returns allowed=false returns remaining = 0 and
\* retryAfter = ceil((resetAt - now) / 1000), which is greater than 0.
C16_RetryAfter ==
  Blocked =>
    /\ lastRes.ret.remaining = 0
    /\ lastRes.ret.retryAfter
         = SecondsCovering(lastRes.prev[lastRes.key].resetAt - now)
    /\ lastRes.ret.retryAfter > 0

\* C17: a key whose record was charged by recordFailure only and probed by
\* check(key, false) only: the probe is refused exactly when maxAttempts or
\* more recordFailure calls were recorded in the record's live window, never
\* when there was none, and it leaves the record as it found it.
C17_InvitePattern ==
  (CheckedObs /\ ~lastRes.increment /\ nChk = 0) =>
    /\ ~lastRes.ret.allowed <=> nFail >= maxAttempts
    /\ Entry(records, obs) \in { lastRes.prev, EmptyMap }
    /\ obs \in DOMAIN records => now <= winStart + windowMs

C17_Witness ==
  /\ CheckedObs /\ ~lastRes.increment /\ nChk = 0
  /\ maxAttempts = 2 /\ nFail = 2
  /\ now = winStart + windowMs
  /\ ~lastRes.ret.allowed

(***************************************************************************)
(* Session tokens: further properties                                      *)
(***************************************************************************)

\* validateSessionToken was called on the issued token with its secret and
\* a maximum age.
ValidatedWithMaxAge ==
  /\ lastTok.op = "validate"
  /\ "options" \in DOMAIN lastTok
  /\ issued # NoToken

\* C18: validateSessionToken(token, secret, {maxAgeMs}) on a correctly signed
\* token returns valid = false with error 'Token expired' when the token's
\* age exceeds maxAgeMs, and valid = true only when it does not.
C18_MaxAgeEnforced ==
  ValidatedWithMaxAge =>
    LET ageMs == now - issued.at IN
    /\ ageMs > lastTok.options.maxAgeMs =>
         lastTok.ret = [valid |-> FALSE, error |-> Msg("Token expired")]
    /\ ("valid" \in DOMAIN lastTok.ret /\ lastTok.ret.valid) =>
         ageMs <= lastTok.options.maxAgeMs

(***************************************************************************)
(* Reconnection lock: lib/reconnection-lock.js                             *)
(***************************************************************************)

\* isLocked(): `return locked`
isLocked(flag) == flag

acquire_unguarded(flag) == [locked |-> TRUE, ret |-> TRUE]

\* acquire(): `if (locked) return false; locked = true; return true`
acquire(flag) ==
  IF flag THEN [locked |-> flag, ret |-> FALSE]
  ELSE [locked |-> TRUE, ret |-> TRUE]

release_noop(flag) == flag

release_toggles(flag) == ~flag

\* release(): `locked = false`
release(flag) == FALSE

\* The asynchronous callers that share one lock.
Callers == {"c1", "c2", "c3"}

\* What the function handed to withLock does: it throws before it returns
\* a promise, or its promise is awaited and later fulfils or rejects.
FnKinds == {"throws at once", "suspends"}
Outcomes == {"fulfilled", "rejected"}

\* The callers inside their critical section: between a successful acquire()
\* and their release(), or inside the function they passed to withLock.
Inside == { c \in Callers : pc[c] \in {"critical", "fn"} }

InitLock ==
  /\ now = 0
  /\ IdleLimiter /\ InitToken /\ IdleEnv
  /\ locked = FALSE
  /\ pc = [c \in Callers |-> "idle"]
  /\ stray = FALSE
  /\ lastLock = NoCall

LockFrame == UNCHANGED <<now, limiterVars, tokenVars, envVars>>

\* lock.isLocked()
CallIsLocked(c) ==
  /\ lastLock' = [op |-> "isLocked", caller |-> c, before |-> locked,
                  ret |-> isLocked(locked)]
  /\ UNCHANGED <<locked, pc, stray>>
  /\ LockFrame

\* `if (!lock.acquire()) return;` and, on success, the critical section begins
CallAcquire(c) ==
  /\ pc[c] = "idle"
  /\ LET out == acquire(locked) IN
     /\ locked' = out.locked
     /\ pc' = IF out.ret THEN [pc EXCEPT ![c] = "critical"] ELSE pc
     /\ lastLock' = [op |-> "acquire", caller |-> c, before |-> locked,
                     ret |-> out.ret]
  /\ UNCHANGED stray
  /\ LockFrame

\* `finally { lock.release(); }` of a caller whose acquire() returned true
CallRelease(c) ==
  /\ pc[c] = "critical"
  /\ locked' = release(locked)
  /\ pc' = [pc EXCEPT ![c] = "idle"]
  /\ lastLock' = [op |-> "release", caller |-> c, before |-> locked,
                  holder |-> TRUE]
  /\ UNCHANGED stray
  /\ LockFrame

\* lock.release() by a caller that holds no lock
StrayRelease(c) ==
  /\ pc[c] = "idle"
  /\ locked' = release(locked)
  /\ stray' = TRUE
  /\ lastLock' = [op |-> "release", caller |-> c, before |-> locked,
                  holder |-> FALSE]
  /\ UNCHANGED pc
  /\ LockFrame

\* withLock(fn) up to its first suspension: acquire(), then fn() is called;
\* a throw of fn runs the finally block at once.
WithLockStart(c, kind) ==
  /\ pc[c] = "idle"
  /\ LET out == acquire(locked) IN
     IF ~out.ret
       THEN /\ locked' = out.locked
            /\ pc' = pc
            /\ lastLock' = [op |-> "withLock", caller |-> c, before |-> locked,
                            invoked |-> FALSE, result |-> "null"]
     ELSE IF kind = "throws at once"
       THEN /\ locked' = release(out.locked)
            /\ pc' = pc
            /\ lastLock' = [op |-> "withLock", caller |-> c, before |-> locked,
                            invoked |-> TRUE, result |-> "rejected"]
     ELSE /\ locked' = out.locked
          /\ pc' = [pc EXCEPT ![c] = "fn"]
          /\ lastLock' = [op |-> "withLock", caller |-> c, before |-> locked,
                          invoked |-> TRUE, result |-> "pending"]
  /\ UNCHANGED stray
  /\ LockFrame

\* The promise of fn settles: `finally { release(); }` runs and withLock's
\* promise settles the same way.
FnSettles(c, outcome) ==
  /\ pc[c] = "fn"
  /\ locked' = release(locked)
  /\ pc' = [pc EXCEPT ![c] = "idle"]
  /\ lastLock' = [op |-> "withLock settled", caller |-> c, before |-> locked,
                  result |-> outcome]
  /\ UNCHANGED stray
  /\ LockFrame

NextLock ==
  \/ \E c \in Callers : CallIsLocked(c)
  \/ \E c \in Callers : CallAcquire(c)
  \/ \E c \in Callers : CallRelease(c)
  \/ \E c \in Callers : StrayRelease(c)
  \/ \E c \in Callers, kind \in FnKinds : WithLockStart(c, kind)
  \/ \E c \in Callers, outcome \in Outcomes : FnSettles(c, outcome)

SpecLock == InitLock /\ [][NextLock]_vars

\* C19: as long as every release() came from a caller that had acquired the
\* lock, at most one caller is inside its critical section and the flag is
\* set exactly while one is; acquire() returns true exactly when the lock
\* was free, and a refused acquire() leaves the lock and the callers as they
\* were.
C19_MutualExclusion ==
  /\ ~stray => /\ Cardinality(Inside) <= 1
               /\ locked <=> Inside # {}
  /\ lastLock.op = "acquire" =>
       /\ lastLock.ret <=> ~lastLock.before
       /\ lastLock.ret => locked /\ pc[lastLock.caller] = "critical"
       /\ ~lastLock.ret => locked /\ pc[lastLock.caller] = "idle"

C19_Witness ==
  /\ ~stray
  /\ lastLock.op = "acquire" /\ ~lastLock.ret
  /\ lastLock.caller = "c2"
  /\ pc["c1"] = "fn"
  /\ Inside = {"c1"}

\* C20: the k-th counted check of a window that only checks touched is
\* allowed with remaining = maxAttempts - k; every allowed counting check
\* returns maxAttempts minus the count it leaves in the record; and no
\* result of check has a negative remaining, whatever recordFailure calls
\* came in between.
C20_Remaining ==
  /\ (CheckedObs /\ lastRes.increment /\ lastRes.ret.allowed) =>
       /\ lastRes.ret.remaining = maxAttempts - records[obs].count
       /\ ~taint => /\ nChk \in 1..maxAttempts
                    /\ lastRes.ret.remaining = maxAttempts - nChk
  /\ lastRes.op = "check" => lastRes.ret.remaining >= 0

C20_Witness ==
  /\ CheckedObs /\ lastRes.increment /\ lastRes.ret.allowed
  /\ taint /\ nFail = 1
  /\ maxAttempts = 2 /\ nChk = 1
  /\ records[obs].count = 2
  /\ lastRes.ret.remaining = 0

(***************************************************************************)
(* Rate limiter: construction                                              *)
(***************************************************************************)

\* `a || b`
OrElse(a, b) == IF Falsy(a) THEN b ELSE a

\* `!v || v <= 0` of a number or undefined
NotPositive(v) == Falsy(v) \/ (v.t = "number" /\ v.n <= 0)

\* createRateLimiter(options): what it throws, or the configuration the
\* limiter it returns is closed over.
createRateLimiter(options) ==
  IF options = JsUndefined
    THEN Thrown("TypeError: Cannot destructure property of undefined")
  ELSE LET windowMsGiven == options.windowMs
           maxAttemptsGiven == options.maxAttempts
           threshold == IF options.cleanupThreshold = JsUndefined
                          THEN JsNumber(1000) ELSE options.cleanupThreshold
       IN IF NotPositive(windowMsGiven)
            THEN Thrown("windowMs must be a positive number")
          ELSE IF NotPositive(maxAttemptsGiven)
            THEN Thrown("maxAttempts must be a positive number")
          ELSE [threw |-> FALSE,
                value |-> [windowMs |-> windowMsGiven,
                           maxAttempts |-> maxAttemptsGiven,
                           cleanupThreshold |-> threshold]]

\* `options = {}`: an object without the properties, each read as undefined
NoOptions ==
  [windowMs |-> JsUndefined, maxAttempts |-> JsUndefined,
   maxConnections |-> JsUndefined, cleanupThreshold |-> JsUndefined]

DefaultOptions(options) == IF options = JsUndefined THEN NoOptions ELSE options

\* createConnectionRateLimiter(options = {})
createConnectionRateLimiter(given) ==
  LET options == DefaultOptions(given) IN
  createRateLimiter([windowMs |-> OrElse(options.windowMs, JsNumber(60 * 1000)),
                     maxAttempts |-> OrElse(options.maxConnections, JsNumber(10)),
                     cleanupThreshold |-> OrElse(options.cleanupThreshold, JsNumber(1000))])

\* createInviteRateLimiter(options = {})
createInviteRateLimiter(given) ==
  LET options == DefaultOptions(given) IN
  createRateLimiter([windowMs |-> OrElse(options.windowMs, JsNumber(60 * 60 * 1000)),
                     maxAttempts |-> OrElse(options.maxAttempts, JsNumber(10)),
                     cleanupThreshold |-> OrElse(options.cleanupThreshold, JsNumber(500))])

Factories == {"createRateLimiter", "createConnectionRateLimiter",
              "createInviteRateLimiter"}

\* The numbers a caller passes, or leaves out.
GivenNumbers == {JsUndefined, JsNumber(-1), JsNumber(0), JsNumber(1)}

LimiterOptions ==
  [windowMs : GivenNumbers, maxAttempts : GivenNumbers,
   maxConnections : GivenNumbers,
   cleanupThreshold : {JsUndefined, JsNumber(0), JsNumber(1)}]
    \cup {JsUndefined}

\* The option a factory reads the limit from.
LimitOf(factory, options) ==
  IF factory = "createConnectionRateLimiter"
    THEN options.maxConnections ELSE options.maxAttempts

InitCreate == now = 0 /\ IdleLimiter /\ InitToken /\ IdleEnv /\ IdleLock

\* A caller constructs a limiter.
Construct(factory, options) ==
  /\ lastRes = NoCall
  /\ lastRes' = [op |-> factory, options |-> options,
                 out |-> CASE factory = "createRateLimiter" ->
                                createRateLimiter(options)
                           [] factory = "createConnectionRateLimiter" ->
                                createConnectionRateLimiter(options)
                           [] factory = "createInviteRateLimiter" ->
                                createInviteRateLimiter(options)]
  /\ UNCHANGED <<now, maxAttempts, cleanupThreshold, records, obs, records2,
                 lastRes2, nChk, winStart, taint, nFail, wasReset,
                 tokenVars, envVars, lockVars>>

NextCreate ==
  \/ \E factory \in Factories, options \in LimiterOptions :
       Construct(factory, options)
  \/ Return

SpecCreate == InitCreate /\ [][NextCreate]_vars

Constructed == lastRes.op \in Factories /\ lastRes.options # JsUndefined

IsNumber(v) == v.t = "number"

\* C21: each of the three factories throws when the caller passes a window
\* or a limit that is a number <= 0, zero included.
C21_NonPositiveThrows ==
  Constructed =>
    LET windowGiven == lastRes.options.windowMs
        limitGiven == LimitOf(lastRes.op, lastRes.options)
    IN (\/ IsNumber(windowGiven) /\ windowGiven.n <= 0
        \/ IsNumber(limitGiven) /\ limitGiven.n <= 0)
         => lastRes.out.threw

\* A call that counts: check(key) with increment true, or recordFailure(key),
\* on a key that had a record.
CountedOnRecord ==
  /\ \/ lastRes.op = "check" /\ lastRes.increment
     \/ lastRes.op = "recordFailure"
  /\ lastRes.key \in DOMAIN lastRes.prev

\* C22: a record's count is incremented only at times now < resetAt; from
\* now >= resetAt on, a counting call discards the old record or replaces it
\* by a fresh one with count = 1 and resetAt = now + windowMs.
C22_CountsOnlyBeforeResetAt ==
  CountedOnRecord =>
    LET key == lastRes.key
        old == lastRes.prev[key]
    IN now >= old.resetAt =>
         \/ key \notin DOMAIN records
         \/ records[key] = [count |-> 1, resetAt |-> now + windowMs]

\* check(key, false) was called.
Probed == lastRes.op = "check" /\ ~lastRes.increment

\* C23: check(key, false) creates no record and leaves every live record as
\* it was; it returns allowed = true with remaining = maxAttempts - 1 when
\* the key has no live record, and with remaining = maxAttempts - c when the
\* key's live record has count c < maxAttempts.
C23_ProbeFrame ==
  Probed =>
    LET key == lastRes.key
        before == lastRes.before
        live == { k \in DOMAIN before : ~Expired(before[k], now) }
    IN /\ DOMAIN records \subseteq DOMAIN before
       /\ \A k \in live : k \in DOMAIN records /\ records[k] = before[k]
       /\ key \notin live =>
            lastRes.ret = [allowed |-> TRUE, remaining |-> maxAttempts - 1]
       /\ (key \in live /\ before[key].count < maxAttempts) =>
            lastRes.ret = [allowed |-> TRUE,
                           remaining |-> maxAttempts - before[key].count]

C23_Witness ==
  /\ Probed
  /\ lastRes.key = "ipA"
  /\ maxAttempts = 2
  /\ DOMAIN lastRes.before = {"ipA", "ipB"}
  /\ Expired(lastRes.before["ipA"], now)
  /\ lastRes.before["ipA"].count = 2
  /\ ~Expired(lastRes.before["ipB"], now)
  /\ "ipA" \notin DOMAIN records

\* C24: recordFailure(key) adds exactly 1 to the count of a live record, also
\* when the count is at or above maxAttempts, and keeps its resetAt; with no
\* record or an expired one it installs count = 1, resetAt = now + windowMs;
\* the records of the other keys stay as they were.
C24_RecordFailureCounts ==
  lastRes.op = "recordFailure" =>
    LET key == lastRes.key
        prev == lastRes.prev
    IN /\ key \in DOMAIN records
       /\ IF key \in DOMAIN prev /\ ~Expired(prev[key], now)
            THEN records[key] = [count |-> prev[key].count + 1,
                                 resetAt |-> prev[key].resetAt]
            ELSE records[key] = [count |-> 1, resetAt |-> now + windowMs]
       /\ MapDelete(records, key) = lastRes.others

C24_Witness ==
  /\ lastRes.op = "recordFailure"
  /\ lastRes.key = "ipA"
  /\ maxAttempts = 1
  /\ "ipA" \in DOMAIN lastRes.prev
  /\ lastRes.prev["ipA"].count = 2
  /\ records["ipA"].count = 3
  /\ "ipB" \in DOMAIN lastRes.others

(***************************************************************************)
(* Rate limiter with a clock that keeps advancing                          *)
(***************************************************************************)

\* The clock goes on after the last call, until every window has passed.
LateTick ==
  /\ lastRes = NoCall
  /\ now >= MaxTime
  /\ now <= MaxTime + windowMs
  /\ now' = now + 1
  /\ UNCHANGED <<limiterVars, tokenVars, envVars, lockVars>>

\* Calls are made up to MaxTime.
NextLimiterFair ==
  \/ now <= MaxTime /\ NextLimiter
  \/ LateTick

\* Date.now() keeps advancing between the calls, and every call returns.
SpecLimiterFair ==
  /\ Init
  /\ [][NextLimiterFair]_vars
  /\ SF_vars(Tick \/ LateTick)
  /\ WF_vars(Return)

\* No step changes the resetAt of a record that it keeps: a record goes on
\* with its resetAt, or it is deleted, or an expired one is replaced.
FixedWindow ==
  \A k \in DOMAIN records \cap DOMAIN records' :
    \/ records'[k].resetAt = records[k].resetAt
    \/ Expired(records[k], now) /\ records'[k] = NewRecord(now)

\* A check would be allowed now.
WouldAllow == lastRes = NoCall /\ check(records, obs, TRUE, now).ret.allowed

\* C25: no step changes the resetAt of an existing record; a check that
\* returns allowed = false leaves the key's record as it was; a key is
\* blocked at most windowMs after the first counted attempt of its window;
\* and with an advancing clock a blocked key is eventually allowed again.
C25_FixedWindow ==
  /\ [][FixedWindow]_vars
  /\ [](Blocked => Entry(records, lastRes.key) = lastRes.prev)
  /\ []((Blocked /\ lastRes.key = obs) => now <= winStart + windowMs)
  /\ (Blocked /\ lastRes.key = obs) ~> WouldAllow

C25_Witness ==
  /\ maxAttempts = 1
  /\ obs \in DOMAIN records
  /\ nChk = 2 /\ nFail = 1
  /\ records[obs].count = 2
  /\ Expired(records[obs], now)
  /\ WouldAllow

\* The records of a map that are not expired at time t, as a map.
LiveRecords(recs, t) ==
  [k \in { j \in DOMAIN recs : ~(t > recs[j].resetAt) } |-> recs[k]]

\* check found the map, after dropping the key's own expired record, larger
\* than cleanupThreshold.
CheckFoundLarge ==
  /\ lastRes.op = "check"
  /\ Cardinality(DOMAIN lastRes.before
                   \ { k \in {lastRes.key} \cap DOMAIN lastRes.before :
                         now > lastRes.before[k].resetAt })
       > cleanupThreshold

\* C26: cleanup() leaves exactly the records whose resetAt has not passed,
\* each as it was; and after a check that found the map larger than
\* cleanupThreshold no expired record is in the map, while the live records
\* of the other keys are as they were.
C26_Sweep ==
  /\ lastRes.op = "cleanup" => records = LiveRecords(lastRes.before, now)
  /\ CheckFoundLarge =>
       /\ \A k \in DOMAIN records : ~(now > records[k].resetAt)
       /\ MapDelete(records, lastRes.key)
            = MapDelete(LiveRecords(lastRes.before, now), lastRes.key)

C26_Witness ==
  /\ CheckFoundLarge
  /\ lastRes.key = "ipA"
  /\ DOMAIN lastRes.before = {"ipA", "ipB"}
  /\ ~(now > lastRes.before["ipA"].resetAt)
  /\ now > lastRes.before["ipB"].resetAt
  /\ DOMAIN records = {"ipA"}

\* validateSessionToken was called with two non-empty strings.
ValidatedStrings ==
  /\ lastTok.op = "validate"
  /\ ~NotNonEmptyString(lastTok.token)
  /\ ~NotNonEmptyString(lastTok.secret)

\* The number of '.' in a string.
DotsIn(str) == Cardinality({ i \in DOMAIN str : str[i] = Dot })

\* The token has two parts, and its second part is the hex of the HMAC, under
\* the secret, of the text its first part decodes to.
SignatureVerifies(token, secret) ==
  /\ DotsIn(token) = 1
  /\ LET dot == CHOOSE i \in DOMAIN token : token[i] = Dot
         data == Utf8Decode(Base64Decode(SubSeq(token, 1, dot - 1)))
     IN HexDecode(SubSeq(token, dot + 1, Len(token)))
          = HexDecode(HmacHex(secret, data))

ErrorIs(ret, text) == ret = [valid |-> FALSE, error |-> Msg(text)]

ParseErrors == { Msg("Invalid token data format"), Msg("Invalid timestamp") }

\* C27: validateSessionToken checks its arguments first, then that the token
\* has exactly one '.', then the signature, and parses the data last: a
\* result that is valid or reports a parse error comes only with a verified
\* signature, and an unverified signature is reported as 'Invalid signature'.
C27_CheckOrder ==
  lastTok.op = "validate" =>
    LET token == lastTok.token
        secret == lastTok.secret
        ret == lastTok.ret
    IN IF NotNonEmptyString(token)
         THEN ErrorIs(ret, "Token must be a non-empty string")
       ELSE IF NotNonEmptyString(secret)
         THEN ErrorIs(ret, "Secret must be a non-empty string")
       ELSE IF DotsIn(token.s) # 1
         THEN ErrorIs(ret, "Invalid token format")
       ELSE IF ~SignatureVerifies(token.s, secret.s)
         THEN ErrorIs(ret, "Invalid signature")
       ELSE ret.valid \/ ret.error \in ParseErrors

C27_Witness ==
  /\ ValidatedStrings
  /\ lastTok.secret = JsString(Str(<<"k">>))
  /\ DotsIn(lastTok.token.s) = 1
  /\ ~SignatureVerifies(lastTok.token.s, lastTok.secret.s)
  /\ LET data == Utf8Decode(Base64Decode(split(lastTok.token.s, Dot)[1]))
     IN ErrorIs(ParseData(data), "Invalid timestamp")
  /\ ErrorIs(lastTok.ret, "Invalid signature")

\* The data segment of a two-part token holds a character that is neither of
\* the base64 alphabet nor '='.
DataNotBase64(token) ==
  /\ DotsIn(token) = 1
  /\ LET dot == CHOOSE i \in DOMAIN token : token[i] = Dot
     IN \E i \in 1..(dot - 1) : Unbase64(token[i]) < 0 /\ token[i] # Pad

\* C28: a token whose data segment is not valid base64 is rejected with
\* valid = false and error 'Invalid base64 encoding'.
C28_InvalidBase64Rejected ==
  (ValidatedStrings /\ DataNotBase64(lastTok.token.s)) =>
    ErrorIs(lastTok.ret, "Invalid base64 encoding")

\* The text a two-part token's data segment decodes to.
DataOf(token) ==
  Utf8Decode(Base64Decode(SubSeq(token, 1, (CHOOSE i \in DOMAIN token : token[i] = Dot) - 1)))

\* The text after the last ':' of data that has one.
AfterLastColon(data) ==
  LET last == CHOOSE i \in DOMAIN data :
                data[i] = Colon /\ \A j \in (i + 1)..Len(data) : data[j] # Colon
  IN SubSeq(data, last + 1, Len(data))

\* A decimal number: digits and nothing else.
IsDecimal(text) == text # <<>> /\ \A i \in DOMAIN text : IsDigit(text[i])

\* validateSessionToken was called on correctly signed data that has a ':'.
ValidatedSigned ==
  /\ ValidatedStrings
  /\ SignatureVerifies(lastTok.token.s, lastTok.secret.s)
  /\ \E i \in DOMAIN DataOf(lastTok.token.s) : DataOf(lastTok.token.s)[i] = Colon

\* C29: for correctly signed data whose text after the last ':' is not a
\* decimal number the result is valid = false, error 'Invalid timestamp'; a
\* valid result carries the integer written there.
C29_TimestampParsed ==
  ValidatedSigned =>
    LET text == AfterLastColon(DataOf(lastTok.token.s)) IN
    IF IsDecimal(text)
      THEN lastTok.ret.valid /\ lastTok.ret.timestamp = DecimalValue(text)
      ELSE ErrorIs(lastTok.ret, "Invalid timestamp")

\* The signature segment of a two-part token.
SignatureOf(token) ==
  SubSeq(token, (CHOOSE i \in DOMAIN token : token[i] = Dot) + 1, Len(token))

\* C30: validateSessionToken returns valid = true only when the signature
\* segment is exactly the 64 lowercase hex characters of the HMAC of the
\* decoded data; any other segment is rejected with 'Invalid signature'.
C30_ExactSignature ==
  (ValidatedStrings /\ DotsIn(lastTok.token.s) = 1) =>
    LET token == lastTok.token.s
        expected == HmacHex(lastTok.secret.s, DataOf(token))
    IN /\ Len(expected) = 64
       /\ SignatureOf(token) # expected => ErrorIs(lastTok.ret, "Invalid signature")
       /\ ("valid" \in DOMAIN lastTok.ret /\ lastTok.ret.valid)
            => SignatureOf(token) = expected

(***************************************************************************)
(* Environment files: further properties                                   *)
(***************************************************************************)

\* createSessionEnvFile was called by a caller itself.
CalledCreateSessionEnvFile == lastEnv.op = "createSessionEnvFile"

\* C31: createSessionEnvFile throws on an invalid argument and then leaves
\* directories and files as they were; it throws when the directory cannot
\* be made for a reason other than 'already exists', and then writes no
\* file; it throws when the write fails; and whenever it throws it returns
\* no handle.
C31_FailureBehaviour ==
  CalledCreateSessionEnvFile =>
    LET options == lastEnv.options
        faults == lastEnv.faults
        out == lastEnv.out
    IN /\ InvalidOptions(options) => out.threw /\ World = lastEnv.before
       /\ (~InvalidOptions(options) /\ faults.mkdir \notin {"none", "EEXIST"})
            => out.threw /\ fs = lastEnv.before.fs
       /\ (~InvalidOptions(options) /\ faults.write # "none") => out.threw
       /\ out.threw => "value" \notin DOMAIN out
       /\ out.threw \/ out.value \in handles

C31_Witness ==
  /\ CalledCreateSessionEnvFile
  /\ ~InvalidOptions(lastEnv.options)
  /\ lastEnv.faults.mkdir = "EACCES"
  /\ lastEnv.out = Thrown("Failed to create env directory")
  /\ dirs = {}

\* manager.cleanup(sessionId) was called on a tracked session.
ManagerCleaned ==
  /\ lastEnv.op = "cleanup"
  /\ lastEnv.sessionId \in DOMAIN lastEnv.filesBefore

\* C32: manager.cleanup(sessionId) runs the tracked handle's cleanup and
\* untracks that session only, and the files of the sessions still tracked
\* are as they were; after manager.cleanupAll() nothing is tracked and,
\* unless a deletion failed, no file of a session that was tracked is left.
C32_CleanupExactlyOne ==
  /\ ManagerCleaned =>
       LET old == lastEnv.filesBefore
           sessionId == lastEnv.sessionId
       IN /\ files = MapDelete(old, sessionId)
          /\ old[sessionId].containerPath \notin DOMAIN fs \/ lastEnv.out.logged
          /\ \A other \in DOMAIN files :
               Entry(fs, files[other].containerPath)
                 = Entry(lastEnv.before.fs, files[other].containerPath)
  /\ lastEnv.op = "cleanupAll" =>
       /\ managerSize(files) = 0
       /\ \A s \in EnvSessionIdInputs : get(files, s) = JsUndefined
       /\ lastEnv.out.logged
            \/ \A s \in DOMAIN lastEnv.filesBefore :
                 lastEnv.filesBefore[s].containerPath \notin DOMAIN fs

(***************************************************************************)
(* Reconnection lock: further properties                                   *)
(***************************************************************************)

\* Every function handed to withLock terminates: its promise settles.
SpecLockFair ==
  /\ InitLock
  /\ [][NextLock]_vars
  /\ \A c \in Callers : WF_vars(\E outcome \in Outcomes : FnSettles(c, outcome))

\* withLock found the lock held.
WithLockRefused == lastLock.op = "withLock" /\ lastLock.before

\* C33: withLock on a held lock gives null, does not call fn and leaves the
\* lock held; on a free lock it calls fn and, with no release by a caller
\* that holds no lock, the lock stays held while fn runs; when fn throws,
\* fulfils or rejects the lock is released; and a running fn always leads to
\* a free lock.
C33_WithLock ==
  /\ [](WithLockRefused =>
          /\ lastLock.result = "null" /\ ~lastLock.invoked
          /\ locked /\ pc[lastLock.caller] = "idle")
  /\ []((lastLock.op = "withLock" /\ ~lastLock.before) =>
          /\ lastLock.invoked
          /\ lastLock.result \in {"pending", "rejected"}
          /\ (lastLock.result = "pending") <=> (pc[lastLock.caller] = "fn")
          /\ (lastLock.result = "pending") <=> locked)
  /\ [](~stray => \A c \in Callers : pc[c] = "fn" => locked)
  /\ [](lastLock.op = "withLock settled" =>
          ~locked /\ pc[lastLock.caller] = "idle" /\ lastLock.result \in Outcomes)
  /\ \A c \in Callers : (pc[c] = "fn") ~> ~locked

C33_Witness ==
  /\ WithLockRefused
  /\ ~stray
  /\ lastLock.caller = "c2"
  /\ pc["c1"] = "fn"
  /\ locked

(***************************************************************************)
(* Environment files: callers that choose their own session ids            *)
(***************************************************************************)

\* Session ids with '/' and '..' segments, next to a plain one.
PathSessionIds ==
  { Str(<<"a">>), Str(<<"a", "/", "b">>),
    Str(<<"x", "/", ".", ".", "/", "s", "e", "s", "s", "i", "o", "n", "-", "a">>),
    Str(<<"x", "/", ".", ".", "/", ".", ".", "/", "y">>) }

PathOptions ==
  { ManagerOptions(JsString(s), JsObject(<<>>)) : s \in PathSessionIds }

NextPaths ==
  \/ EnvReturn
  \/ \E options \in PathOptions, faults \in Faults :
       CallCreateSessionEnvFile(options, faults)
  \/ \E handle \in handles, error \in {"none", "EPERM"} :
       CallHandleCleanup(handle, error)

SpecPaths == InitEnv /\ [][NextPaths]_vars

\* The path names an entry of the directory itself.
DirectlyInside(path, directory) == dirname(path) = directory

\* The paths whose file a call created, changed or deleted.
Touched == { p \in DOMAIN fs \cup DOMAIN lastEnv.before.fs :
               Entry(fs, p) # Entry(lastEnv.before.fs, p) }

\* C34: whatever sessionId createSessionEnvFile accepts, the file it writes
\* and the file the handle's cleanup deletes are entries of containerPath
\* itself, and the returned hostPath is an entry of hostPath itself.
C34_PathContainment ==
  /\ (CalledCreateSessionEnvFile /\ ~lastEnv.out.threw) =>
       /\ DirectlyInside(lastEnv.out.value.containerPath,
                         lastEnv.options.containerPath.s)
       /\ DirectlyInside(lastEnv.out.value.hostPath, lastEnv.options.hostPath.s)
       /\ \A p \in Touched : DirectlyInside(p, lastEnv.options.containerPath.s)
  /\ lastEnv.op = "handle.cleanup" =>
       \A p \in Touched : DirectlyInside(p, ManagerContainerPath)

(***************************************************************************)
(* Environment files: the manager and the handles it returned              *)
(***************************************************************************)

\* Callers use the manager, and the cleanup closures of the handles that
\* manager.create gave them; nobody calls createSessionEnvFile directly.
NextManager ==
  \/ EnvReturn
  \/ \E sessionId \in EnvSessionIdInputs, credentials \in ManagerCredentials,
        faults \in Faults : ManagerCreate(sessionId, credentials, faults)
  \/ \E sessionId \in EnvSessionIdInputs, error \in {"none", "EPERM"} :
       ManagerCleanup(sessionId, error)
  \/ \E failing \in SUBSET DOMAIN fs : ManagerCleanupAll(failing)
  \/ \E handle \in handles, error \in {"none", "EPERM"} :
       CallHandleCleanup(handle, error)

SpecManager == InitEnv /\ [][NextManager]_vars

\* C35: every sessionId the manager tracks has its credential file on disk.
C35_TrackedFilePresent ==
  \A s \in DOMAIN files : files[s].containerPath \in DOMAIN fs

\* manager.create failed for a sessionId that was tracked.
FailedReplace ==
  /\ lastEnv.op = "create"
  /\ lastEnv.out.threw
  /\ lastEnv.sessionId \in DOMAIN lastEnv.filesBefore

OldPath == lastEnv.filesBefore[lastEnv.sessionId].containerPath

\* C36, as stated: after a manager.create that failed for a tracked
\* sessionId, the sessionId is untracked and its old file is deleted.
C36_FailedReplaceCleansUp ==
  FailedReplace =>
    /\ lastEnv.sessionId \notin DOMAIN files
    /\ OldPath \notin DOMAIN fs

\* C36, amended: after a manager.create that failed for a tracked sessionId,
\* the sessionId is untracked, and its old file is deleted unless deleting
\* it failed, which was logged; a failed create never leaves its sessionId
\* tracked.
C36_FailedReplaceCleansUpUnlessUndeletable ==
  /\ FailedReplace =>
       /\ lastEnv.sessionId \notin DOMAIN files
       /\ OldPath \notin DOMAIN fs \/ lastEnv.logged
       /\ lastEnv.logged => Entry(fs, OldPath) = Entry(lastEnv.before.fs, OldPath)
  /\ (lastEnv.op = "create" /\ lastEnv.out.threw) =>
       lastEnv.sessionId \notin DOMAIN files

C36_Witness ==
  /\ FailedReplace
  /\ lastEnv.out = Thrown("Failed to write env file")
  /\ OldPath \in DOMAIN lastEnv.before.fs
  /\ OldPath \notin DOMAIN fs
  /\ ~lastEnv.logged

\* The paths a manager.cleanup or manager.cleanupAll call hands to unlink:
\* those of the entries it finds tracked.
Attempted ==
  IF lastEnv.op = "cleanup"
    THEN IF lastEnv.sessionId \in DOMAIN lastEnv.filesBefore
           THEN { lastEnv.filesBefore[lastEnv.sessionId].containerPath }
         ELSE {}
  ELSE { lastEnv.filesBefore[s].containerPath : s \in DOMAIN lastEnv.filesBefore }

\* manager.cleanup found its sessionId tracked.
CleanedTracked ==
  /\ lastEnv.op = "cleanup"
  /\ lastEnv.sessionId \in DOMAIN lastEnv.filesBefore

\* manager.cleanup untracks, deleted or not, and a file it could not delete
\* is on disk as it was.
UntracksRegardless ==
  CleanedTracked =>
    /\ lastEnv.sessionId \notin DOMAIN files
    /\ lastEnv.out.logged =>
         \A p \in Attempted :
           p \in DOMAIN fs /\ Entry(fs, p) = Entry(lastEnv.before.fs, p)

\* C37, as stated: manager.cleanup untracks the session whether or not the
\* deletion succeeded, a file whose deletion failed stays on disk, and no
\* later manager.cleanup or manager.cleanupAll hands that file to unlink
\* again.
C37_NeverAttemptedAgain ==
  /\ UntracksRegardless
  /\ lastEnv.op \in {"cleanup", "cleanupAll"} =>
       Attempted \cap lastEnv.abandonedBefore = {}

\* C37, amended: manager.cleanup untracks the session whether or not the
\* deletion succeeded, a file whose deletion failed stays on disk, and a
\* later manager.cleanup of an untracked sessionId does nothing; a later
\* call touches that file only for an entry tracked when it is made.
C37_UntracksUndeleted ==
  /\ UntracksRegardless
  /\ (lastEnv.op = "cleanup" /\ ~CleanedTracked) =>
       /\ World = lastEnv.before
       /\ files = lastEnv.filesBefore
       /\ ~lastEnv.out.logged
  /\ lastEnv.op \in {"cleanup", "cleanupAll"} =>
       /\ ~lastEnv.out.threw
       /\ \A p \in (DOMAIN fs \cup DOMAIN lastEnv.before.fs) \ Attempted :
            p \in DOMAIN fs /\ Entry(fs, p) = Entry(lastEnv.before.fs, p)
       /\ lastEnv.out.logged => Attempted # {}

C37_Witness ==
  /\ CleanedTracked
  /\ lastEnv.out.logged
  /\ lastEnv.sessionId \notin DOMAIN files
  /\ Attempted \subseteq DOMAIN fs
  /\ Attempted \subseteq abandoned

(***************************************************************************)
(* Reconnection lock: releases by callers that hold nothing                *)
(***************************************************************************)

\* A caller is inside its critical section although the flag is clear.
FreedWhileHeld == ~locked /\ Inside # {}

\* C38: the lock has no owner.  Every release() leaves the flag clear,
\* whoever calls it; a release() by a caller that holds nothing leaves the
\* callers inside their critical sections there, and leaves a free lock
\* free; and an acquire() made while the flag is clear although a caller is
\* inside succeeds, after which two callers are inside at once.
C38_NoOwner ==
  /\ [](lastLock.op = "release" => ~locked)
  /\ [][\A c \in Callers :
          StrayRelease(c) => /\ ~locked'
                             /\ Inside' = Inside
                             /\ ~locked => UNCHANGED <<locked, pc>>]_vars
  /\ [][\A c \in Callers :
          (FreedWhileHeld /\ CallAcquire(c)) =>
             /\ lastLock'.ret
             /\ locked'
             /\ c \notin Inside
             /\ Inside' = Inside \cup {c}
             /\ Cardinality(Inside') >= 2]_vars

C38_Witness ==
  /\ stray
  /\ lastLock.op = "acquire" /\ lastLock.ret
  /\ lastLock.caller = "c2"
  /\ pc["c1"] = "critical" /\ pc["c2"] = "critical"
  /\ Cardinality(Inside) = 2

====
